---- MODULE Spec2Model ----
(***************************************************************************)
(* Model of the matching/scoring engine of Resume_Analyzer:                *)
(*   utils/skill_extract.py      boolean skill-expression engine           *)
(*   utils/education_extract.py  degree ranker and education matcher       *)
(*   utils/exper_test.py         experience matcher and scorer             *)
(*   app.py                      education score, upload flow, aggregate   *)
(*                                                                         *)
(* Strings are sequences of one-character strings, so that lower(),        *)
(* strip(), substring containment and the similarity ratio are computed    *)
(* the way the Python code computes them.  Scores are kept in hundredths   *)
(* (66.67 is 6667).                                                        *)
(***************************************************************************)
EXTENDS Integers, Sequences, FiniteSets, TLC

VARIABLES pc, args, ret, users, session, results

vars == <<pc, args, ret, users, session, results>>

\* The tables of users.db and the session of the web application; the
\* specifications of single calls leave them alone.
app == <<users, session, results>>

\* Python values whose type is only known when the code runs are records
\* tagged with their type.  A value that is not there: Python's None.
None == [t |-> "none"]

\* A string, as the sequence of its characters.
Str(s) == [t |-> "str", s |-> s]

Bool(b) == [t |-> "bool", b |-> b]

\* A list of strings.
List(items) == [t |-> "list", items |-> items]

\* A dictionary key that is not there (dict.get falls back to its default).
Missing == [t |-> "missing"]

\* init_db(): both tables exist and are empty; nobody is logged in.
InitApp ==
  /\ users = {}
  /\ session = Missing
  /\ results = <<>>

---------------------------------------------------------------------------
(* Strings *)

UPPER == <<"A","B","C","D","E","F","G","H","I","J","K","L","M",
           "N","O","P","Q","R","S","T","U","V","W","X","Y","Z">>

LOWER == <<"a","b","c","d","e","f","g","h","i","j","k","l","m",
           "n","o","p","q","r","s","t","u","v","w","x","y","z">>

\* str.lower() on one character.
LowerChar(c) ==
  IF \E i \in 1..Len(UPPER) : UPPER[i] = c
    THEN LOWER[CHOOSE i \in 1..Len(UPPER) : UPPER[i] = c]
    ELSE c

\* str.lower()
Lower(s) == [i \in 1..Len(s) |-> LowerChar(s[i])]

RECURSIVE LStripCh(_, _)
\* str.lstrip(ch)
LStripCh(s, ch) ==
  IF s # <<>> /\ Head(s) = ch THEN LStripCh(Tail(s), ch) ELSE s

RECURSIVE RStripCh(_, _)
\* str.rstrip(ch)
RStripCh(s, ch) ==
  IF s # <<>> /\ s[Len(s)] = ch THEN RStripCh(SubSeq(s, 1, Len(s) - 1), ch) ELSE s

\* str.strip(ch)
StripCh(s, ch) == RStripCh(LStripCh(s, ch), ch)

\* str.strip(): the only whitespace of the model's strings is the blank.
Strip(s) == StripCh(s, " ")

\* a in b, for strings: a occurs in b as a contiguous substring.
Contains(b, a) ==
  \E i \in 0..(Len(b) - Len(a)) : SubSeq(b, i + 1, i + Len(a)) = a

\* round(num / den, 0) for num >= 0, den > 0, ties to even as Python rounds.
RoundDiv(num, den) ==
  LET q == num \div den
      r == num % den
  IN  IF 2 * r < den THEN q
      ELSE IF 2 * r > den THEN q + 1
      ELSE IF q % 2 = 0 THEN q ELSE q + 1

---------------------------------------------------------------------------
(* Boolean skill-expression engine: utils/skill_extract.py *)

QUOTE == "\""

AND == <<"a","n","d">>
OR  == <<"o","r">>
NOT == <<"n","o","t">>
LPAR == <<"(">>
RPAR == <<")">>

\* token.startswith('"') and token.endswith('"')
IsQuoted(token) ==
  token # <<>> /\ Head(token) = QUOTE /\ token[Len(token)] = QUOTE

\* token.strip('"').strip().lower()
NormalizeSkill(token) == Lower(Strip(StripCh(token, QUOTE)))

\* required_skills: the normalized contents of the quoted literals, blank
\* ones dropped.
RequiredSkills(tokens) ==
  { NormalizeSkill(tokens[i]) :
      i \in { j \in 1..Len(tokens) :
                IsQuoted(tokens[j]) /\ Strip(StripCh(tokens[j], QUOTE)) # <<>> } }

\* {skill.strip().lower() for skill in resume_skills if skill and isinstance(skill, str)}
NormalizeResumeSkills(skills) ==
  { Lower(Strip(s)) : s \in { x \in skills : x # <<>> } }

\* normalized_tokens: a literal loses its quotes, a keyword is lowercased.
NormalizeTokens(tokens) ==
  [i \in 1..Len(tokens) |->
     IF IsQuoted(tokens[i]) THEN NormalizeSkill(tokens[i]) ELSE Lower(tokens[i])]

\* precedence.get(op, 0)
precedence(op) ==
  IF op = NOT THEN 3 ELSE IF op = AND THEN 2 ELSE IF op = OR THEN 1 ELSE 0

Pop(stack) == SubSeq(stack, 1, Len(stack) - 1)

Top(stack) == stack[Len(stack)]

\* The evaluator's state: the two stacks, and whether a ValueError was raised.
EmptyStacks == [operand_stack |-> <<>>, operator_stack |-> <<>>, raised |-> FALSE]

Raise(st) == [st EXCEPT !.raised = TRUE]

\* apply_operator(op), op already popped from the operator stack.
apply_operator(op, st) ==
  LET os == st.operand_stack IN
  IF op = NOT
    THEN IF os = <<>> THEN Raise(st)
         ELSE [st EXCEPT !.operand_stack = Append(Pop(os), ~Top(os))]
    ELSE IF Len(os) < 2 THEN Raise(st)
         ELSE LET right == Top(os)
                  left  == Top(Pop(os))
                  rest  == Pop(Pop(os))
              IN  IF op = AND
                    THEN [st EXCEPT !.operand_stack = Append(rest, left /\ right)]
                  ELSE IF op = OR
                    THEN [st EXCEPT !.operand_stack = Append(rest, left \/ right)]
                  ELSE [st EXCEPT !.operand_stack = rest]

RECURSIVE ApplyWhilePrecedence(_, _)
\* while operator_stack and operator_stack[-1] != '(' and
\*       precedence(operator_stack[-1]) >= precedence(token): apply_operator(pop())
ApplyWhilePrecedence(token, st) ==
  IF ~st.raised /\ st.operator_stack # <<>> /\ Top(st.operator_stack) # LPAR
     /\ precedence(Top(st.operator_stack)) >= precedence(token)
    THEN ApplyWhilePrecedence(token,
           apply_operator(Top(st.operator_stack),
                          [st EXCEPT !.operator_stack = Pop(st.operator_stack)]))
    ELSE st

RECURSIVE ApplyUntilParen(_)
\* while operator_stack and operator_stack[-1] != '(': apply_operator(pop())
ApplyUntilParen(st) ==
  IF ~st.raised /\ st.operator_stack # <<>> /\ Top(st.operator_stack) # LPAR
    THEN ApplyUntilParen(
           apply_operator(Top(st.operator_stack),
                          [st EXCEPT !.operator_stack = Pop(st.operator_stack)]))
    ELSE st

\* One iteration of "for token in normalized_tokens".
ProcessToken(token, skills, st) ==
  IF token \in {AND, OR, NOT}
    THEN LET s1 == ApplyWhilePrecedence(token, st)
         IN  IF s1.raised THEN s1
             ELSE [s1 EXCEPT !.operator_stack = Append(s1.operator_stack, token)]
  ELSE IF token = LPAR
    THEN [st EXCEPT !.operator_stack = Append(st.operator_stack, token)]
  ELSE IF token = RPAR
    THEN LET s1 == ApplyUntilParen(st)
         IN  IF s1.raised THEN s1
             ELSE IF s1.operator_stack # <<>>
               THEN [s1 EXCEPT !.operator_stack = Pop(s1.operator_stack)]
               ELSE Raise(s1)
  ELSE [st EXCEPT !.operand_stack = Append(st.operand_stack, token \in skills)]

RECURSIVE EvaluateTokens(_, _, _, _)
\* The for loop over normalized_tokens, from token i on.
EvaluateTokens(tokens, skills, i, st) ==
  IF st.raised \/ i > Len(tokens) THEN st
  ELSE EvaluateTokens(tokens, skills, i + 1, ProcessToken(tokens[i], skills, st))

RECURSIVE ApplyRemaining(_)
\* while operator_stack: an opening parenthesis left over raises.
ApplyRemaining(st) ==
  IF st.raised \/ st.operator_stack = <<>> THEN st
  ELSE IF Top(st.operator_stack) = LPAR THEN Raise(st)
  ELSE ApplyRemaining(
         apply_operator(Top(st.operator_stack),
                        [st EXCEPT !.operator_stack = Pop(st.operator_stack)]))

\* The stacks when the evaluation loops are over (before the final pop).
FinalStacks(skills_expression, resume_skills) ==
  ApplyRemaining(
    EvaluateTokens(NormalizeTokens(skills_expression),
                   NormalizeResumeSkills(resume_skills), 1, EmptyStacks))

\* round(len(required & resume) / len(required) * 100, 2) if required else 0.0
MatchCount(required_skills, skills) ==
  IF required_skills = {} THEN 0
  ELSE RoundDiv(Cardinality(required_skills \cap skills) * 10000,
                Cardinality(required_skills))

\* evaluate_resume(skills_expression, resume_skills) -> (result, match_count).
\* skills_expression is the list of tokens the tokenizer finds in the string;
\* an empty string and the string 'False' have none.
evaluate_resume(skills_expression, resume_skills) ==
  IF skills_expression = <<>> THEN [result |-> FALSE, match_count |-> 0]
  ELSE LET st == FinalStacks(skills_expression, resume_skills)
       IN  IF st.raised \/ st.operand_stack = <<>>
             THEN [result |-> FALSE, match_count |-> 0]
             ELSE [result |-> Top(st.operand_stack),
                   match_count |-> MatchCount(RequiredSkills(skills_expression),
                                     NormalizeResumeSkills(resume_skills))]

---------------------------------------------------------------------------
(* Reference semantics of skill expressions: the grammar                   *)
(*   or-expr  ::= and-expr (OR and-expr)*                                  *)
(*   and-expr ::= not-expr (AND not-expr)*                                 *)
(*   not-expr ::= NOT not-expr | atom                                      *)
(*   atom     ::= quoted literal | ( or-expr )                             *)
(* read by recursive descent, independently of the two-stack evaluator.    *)

\* A keyword is a keyword only outside quotes, in any case.
IsKeyword(token, kw) == ~IsQuoted(token) /\ Lower(token) = kw

\* The truth value of a literal: its lowercased, trimmed content is a member
\* of the normalized skill set.
LiteralHolds(token, skills) ==
  Lower(Strip(StripCh(token, QUOTE))) \in { Lower(Strip(s)) : s \in skills \ {<<>>} }

NoParse == [ok |-> FALSE, val |-> FALSE, next |-> 0]

RECURSIVE ParseOr(_, _, _)
RECURSIVE ParseAnd(_, _, _)
RECURSIVE ParseNot(_, _, _)
RECURSIVE OrTail(_, _, _)
RECURSIVE AndTail(_, _, _)

ParseAtom(toks, skills, i) ==
  IF i > Len(toks) THEN NoParse
  ELSE IF IsQuoted(toks[i])
    THEN [ok |-> TRUE, val |-> LiteralHolds(toks[i], skills), next |-> i + 1]
  ELSE IF toks[i] = LPAR
    THEN LET r == ParseOr(toks, skills, i + 1)
         IN  IF r.ok /\ r.next <= Len(toks) /\ toks[r.next] = RPAR
               THEN [r EXCEPT !.next = r.next + 1]
               ELSE NoParse
  ELSE NoParse

ParseNot(toks, skills, i) ==
  IF i <= Len(toks) /\ IsKeyword(toks[i], NOT)
    THEN LET r == ParseNot(toks, skills, i + 1)
         IN  IF r.ok THEN [r EXCEPT !.val = ~r.val] ELSE NoParse
    ELSE ParseAtom(toks, skills, i)

AndTail(toks, skills, left) ==
  IF left.next <= Len(toks) /\ IsKeyword(toks[left.next], AND)
    THEN LET r == ParseNot(toks, skills, left.next + 1)
         IN  IF r.ok THEN AndTail(toks, skills, [r EXCEPT !.val = left.val /\ r.val])
             ELSE NoParse
    ELSE left

ParseAnd(toks, skills, i) ==
  LET r == ParseNot(toks, skills, i)
  IN  IF r.ok THEN AndTail(toks, skills, r) ELSE NoParse

OrTail(toks, skills, left) ==
  IF left.next <= Len(toks) /\ IsKeyword(toks[left.next], OR)
    THEN LET r == ParseAnd(toks, skills, left.next + 1)
         IN  IF r.ok THEN OrTail(toks, skills, [r EXCEPT !.val = left.val \/ r.val])
             ELSE NoParse
    ELSE left

ParseOr(toks, skills, i) ==
  LET r == ParseAnd(toks, skills, i)
  IN  IF r.ok THEN OrTail(toks, skills, r) ELSE NoParse

\* The token list is an expression of the grammar.
WellFormed(toks) ==
  LET r == ParseOr(toks, {}, 1) IN r.ok /\ r.next = Len(toks) + 1

\* The standard truth value of a well-formed expression.
TruthValue(toks, skills) == ParseOr(toks, skills, 1).val

---------------------------------------------------------------------------
(* Inputs of the skill engine *)

\* The longest token list enumerated exhaustively.
MaxTokens == 4

LitPython == <<QUOTE, "P", "y", "t", "h", "o", "n", QUOTE>>
LitJava   == <<QUOTE, "J", "a", "v", "a", QUOTE>>
LitGo     == <<QUOTE, "G", "o", QUOTE>>
KwAND     == <<"A", "N", "D">>
KwOR      == <<"O", "R">>
KwNot     == <<"N", "o", "t">>

Alphabet == {LitPython, LitGo, KwAND, KwOR, KwNot, LPAR, RPAR}

RECURSIVE TokenLists(_)
\* All token lists of exactly n tokens.
TokenLists(n) ==
  IF n = 0 THEN {<<>>}
  ELSE { Append(s, a) : s \in TokenLists(n - 1), a \in Alphabet }

\* '"Python" AND ("Java" OR "Go")' and '"Python" AND "Java"'
ExamplePythonAndJavaOrGo == <<LitPython, KwAND, LPAR, LitJava, KwOR, LitGo, RPAR>>
ExamplePythonAndJava == <<LitPython, KwAND, LitJava>>

\* Precedence without parentheses: '"Python" OR "Java" AND "Go"' and
\* 'NOT "Java" AND "Go" OR "Python"'
ExampleOrAnd == <<LitPython, KwOR, LitJava, KwAND, LitGo>>
ExampleNotAndOr == <<KwNot, LitJava, KwAND, LitGo, KwOR, LitPython>>

\* Literals whose content is a keyword or a parenthesis:
\* '"Python" OR "And"', '"Python" OR "("' and 'NOT "or"'
LitAnd == <<QUOTE, "A", "n", "d", QUOTE>>
LitLPar == <<QUOTE, "(", QUOTE>>
LitOr == <<QUOTE, "o", "r", QUOTE>>
ExampleQuotedAnd == <<LitPython, KwOR, LitAnd>>
ExampleQuotedParen == <<LitPython, KwOR, LitLPar>>
ExampleQuotedOr == <<KwNot, LitOr>>

Expressions ==
  UNION { TokenLists(n) : n \in 0..MaxTokens }
    \cup {ExamplePythonAndJavaOrGo, ExamplePythonAndJava, ExampleOrAnd, ExampleNotAndOr}
    \cup {ExampleQuotedAnd, ExampleQuotedParen, ExampleQuotedOr}

\* Candidate skills as the extraction returns them (not yet normalized).
RawSkills == { <<"p", "y", "t", "h", "o", "n">>, <<"G", "o", " ">> }

---------------------------------------------------------------------------
(* Specification of the skill engine: one call of evaluate_resume *)

InitSkills ==
  /\ pc = "call"
  /\ args \in [skills_expression : Expressions, resume_skills : SUBSET RawSkills]
  /\ ret = None
  /\ InitApp

EvaluateResume ==
  /\ pc = "call"
  /\ ret' = evaluate_resume(args.skills_expression, args.resume_skills)
  /\ pc' = "return"
  /\ UNCHANGED <<args, app>>

NextSkills == EvaluateResume

SpecSkills == InitSkills /\ [][NextSkills]_vars

---------------------------------------------------------------------------
(* Claims about the skill engine *)

Returned == pc = "return"

\* C1: for every well-formed expression and every candidate skill set,
\* evaluate_resume's match result is the standard truth value of the
\* expression (NOT over AND over OR, parentheses overriding).
C1_MatchIsTruthValue ==
  (Returned /\ WellFormed(args.skills_expression))
    => ret.result = TruthValue(args.skills_expression, args.resume_skills)

IsOperator(token) == \E kw \in {AND, OR, NOT} : IsKeyword(token, kw)

IsBinary(token) == \E kw \in {AND, OR} : IsKeyword(token, kw)

RECURSIVE ParenDepths(_, _, _)
\* Scanning from token i at nesting depth d: the final depth, or -1 once a
\* closing parenthesis has no opening one to match.
ParenDepths(toks, i, d) ==
  IF i > Len(toks) THEN d
  ELSE IF toks[i] = LPAR THEN ParenDepths(toks, i + 1, d + 1)
  ELSE IF toks[i] = RPAR
    THEN IF d = 0 THEN -1 ELSE ParenDepths(toks, i + 1, d - 1)
  ELSE ParenDepths(toks, i + 1, d)

UnmatchedClosing(toks) == ParenDepths(toks, 1, 0) = -1

UnclosedOpening(toks) == ParenDepths(toks, 1, 0) > 0

\* Some operator lacks an operand: nothing that can start an operand follows
\* it, or a binary operator has nothing that can end an operand before it.
OperatorLacksOperand(toks) ==
  \E i \in 1..Len(toks) :
    \/ /\ IsOperator(toks[i])
       /\ (i = Len(toks) \/ toks[i + 1] = RPAR \/ IsBinary(toks[i + 1]))
    \/ /\ IsBinary(toks[i])
       /\ (i = 1 \/ toks[i - 1] = LPAR \/ IsOperator(toks[i - 1]))

FailClosed == [result |-> FALSE, match_count |-> 0]

\* C2: an expression that has no tokens, an unmatched closing parenthesis, an
\* unclosed opening parenthesis or an operator with too few operands
\* evaluates to exactly (False, 0.0).
C2_MalformedFailsClosed ==
  (Returned /\ ( \/ args.skills_expression = <<>>
                 \/ UnmatchedClosing(args.skills_expression)
                 \/ UnclosedOpening(args.skills_expression)
                 \/ OperatorLacksOperand(args.skills_expression) ))
    => ret = FailClosed

\* The literals of an expression, lowercased and trimmed.
Literals(toks) ==
  { Lower(Strip(StripCh(toks[i], QUOTE))) : i \in { j \in 1..Len(toks) : IsQuoted(toks[j]) } }

\* |required /\ skills| / |required| * 100, rounded to 2 decimals, in hundredths.
OverlapRatio(toks, skills) ==
  LET required == Literals(toks)
      have == { Lower(Strip(s)) : s \in skills \ {<<>>} }
  IN  RoundDiv(Cardinality(required \cap have) * 10000, Cardinality(required))

\* C3: for every well-formed expression the skills score is the overlap
\* ratio of its literals with the skill set, whatever the boolean result.
C3_ScoreIsOverlapRatio ==
  (Returned /\ WellFormed(args.skills_expression))
    => ret.match_count = OverlapRatio(args.skills_expression, args.resume_skills)

---------------------------------------------------------------------------
(* Numbers, and what can go wrong with them.  A Python number carries its  *)
(* type, int or float, since a TypeError's message names it; v is the      *)
(* value in tenths (3 years is 30, 1.8 years is 18).                       *)

Int_(v) == [t |-> "int", v |-> v]

Float_(v) == [t |-> "float", v |-> v]

\* float('inf')
Inf == [t |-> "inf"]

IsNumber(x) == x.t \in {"int", "float"}

\* What a call does: it returns a value or raises an exception.
Return(value) == [kind |-> "return", value |-> value]

RaiseExc(exc) == [kind |-> "raise", exc |-> exc]

\* dict.get(key, default), on a field that is Missing when the key is not there.
Get(field, default) == IF field = Missing THEN default ELSE field

\* x + y for two numbers: an int only if both are.
Plus(x, y) ==
  [t |-> IF x.t = "int" /\ y.t = "int" THEN "int" ELSE "float", v |-> x.v + y.v]

\* A comparison that lets equal values through as smaller.
LessOrEqual(x, y) == IF y = Inf THEN TRUE ELSE x.v <= y.v

\* x < y, for a number x and y a number or inf.
Less(x, y) == IF y = Inf THEN TRUE ELSE x.v < y.v

\* A comparison for which no value exceeds another.
NeverGreater(x, y) == FALSE

\* x > y, for a number x and y a number or inf.
Greater(x, y) == IF y = Inf THEN FALSE ELSE x.v > y.v

RECURSIVE SumFrom(_, _, _)
\* sum(exp.get("years", 0) for exp in resume_exp): adding None raises
\* TypeError (unsupported operand type(s) for +), shown as None here.
SumFrom(resume_exp, i, acc) ==
  IF i > Len(resume_exp) THEN acc
  ELSE LET years == Get(resume_exp[i].years, Int_(0))
       IN  IF years = None THEN None
           ELSE SumFrom(resume_exp, i + 1, Plus(acc, years))

SumYears(resume_exp) == SumFrom(resume_exp, 1, Int_(0))

---------------------------------------------------------------------------
(* Fuzzy matcher: difflib.SequenceMatcher(None, a, b).ratio() *)

RECURSIVE CommonRun(_, _, _, _, _, _)
\* The length of the longest common run that starts at a[i] and b[j] and
\* stays within a[..ahi], b[..bhi].
CommonRun(a, i, ahi, b, j, bhi) ==
  IF i <= ahi /\ j <= bhi /\ a[i] = b[j]
    THEN 1 + CommonRun(a, i + 1, ahi, b, j + 1, bhi)
    ELSE 0

\* find_longest_match: the longest block common to a[alo..ahi] and
\* b[blo..bhi]; of the longest ones the one that starts earliest in a, and of
\* those the one that starts earliest in b.
find_longest_match(a, alo, ahi, b, blo, bhi) ==
  LET size(p) == CommonRun(a, p[1], ahi, b, p[2], bhi)
      pairs == (alo..ahi) \X (blo..bhi)
      best == CHOOSE p \in pairs :
                \A q \in pairs :
                  \/ size(p) > size(q)
                  \/ size(p) = size(q) /\ p[1] < q[1]
                  \/ size(p) = size(q) /\ p[1] = q[1] /\ p[2] <= q[2]
  IN  [i |-> best[1], j |-> best[2], size |-> size(best)]

RECURSIVE MatchedChars(_, _, _, _, _, _)
\* get_matching_blocks: the longest block, then the same to its left and to
\* its right; the sum of the blocks' sizes.
MatchedChars(a, alo, ahi, b, blo, bhi) ==
  IF alo > ahi \/ blo > bhi THEN 0
  ELSE LET m == find_longest_match(a, alo, ahi, b, blo, bhi)
       IN  IF m.size = 0 THEN 0
           ELSE m.size
                + MatchedChars(a, alo, m.i - 1, b, blo, m.j - 1)
                + MatchedChars(a, m.i + m.size, ahi, b, m.j + m.size, bhi)

\* similar(a, b): the ratio 2 * M / T as the pair of its numerator and
\* denominator (1.0 when both strings are empty).
similar(a, b) ==
  LET la == Lower(a)
      lb == Lower(b)
  IN  IF Len(la) + Len(lb) = 0 THEN [num |-> 1, den |-> 1]
      ELSE [num |-> 2 * MatchedChars(la, 1, Len(la), lb, 1, Len(lb)),
            den |-> Len(la) + Len(lb)]

\* The threshold 0.7 of fields_similar and degrees_similar, in tenths.
THRESHOLD_TENTHS == 7

\* fields_similar(field1, field2, threshold=0.7)
fields_similar(field1, field2) ==
  IF field1 = <<>> \/ field2 = <<>> THEN FALSE
  ELSE LET r == similar(field1, field2)
       IN  r.num * 10 > THRESHOLD_TENTHS * r.den

\* normalize_field_name(field): field.lower() if field else ""
normalize_field_name(field) ==
  IF field.t = "str" /\ field.s # <<>> THEN Lower(field.s) ELSE <<>>

---------------------------------------------------------------------------
(* Experience matcher: utils/exper_test.py *)

\* An empty dictionary: "not jd_exp".
EmptyJdExp ==
  [required |-> Missing, min_years |-> Missing, max_years |-> Missing, fields |-> Missing]

\* A pair that also matches by containment in fuzzy mode.
EvaluateFieldMatchEitherWay(jd_field, entry, use_fuzzy_matching) ==
  LET res_field == normalize_field_name(Get(entry.field, None))
  IN  \/ use_fuzzy_matching /\ fields_similar(jd_field, res_field)
      \/ Contains(res_field, Lower(jd_field))

\* One (required field, record) pair as evaluate_experience judges it.
EvaluateFieldMatch(jd_field, entry, use_fuzzy_matching) ==
  LET res_field == normalize_field_name(Get(entry.field, None))
  IN  IF use_fuzzy_matching THEN fields_similar(jd_field, res_field)
      ELSE Contains(res_field, Lower(jd_field))

\* evaluate_experience(jd_exp, resume_exp, use_fuzzy_matching=True)
evaluate_experience(jd_exp, resume_exp, use_fuzzy_matching) ==
  IF jd_exp = EmptyJdExp THEN Return(FALSE)
  ELSE IF Get(jd_exp.required, Bool(FALSE)) # Bool(TRUE) THEN Return(TRUE)
  ELSE IF resume_exp = <<>> THEN Return(FALSE)
  ELSE
    LET jd_min == Get(jd_exp.min_years, Int_(0))
        jd_max0 == Get(jd_exp.max_years, Inf)
        jd_fields == Get(jd_exp.fields, List(<<>>)).items
        total_exp == SumYears(resume_exp)
        jd_max == IF jd_max0 = None THEN Inf ELSE jd_max0
    IN  IF total_exp = None THEN RaiseExc("TypeError")
        ELSE IF jd_min = None THEN RaiseExc("TypeError")
        ELSE IF Less(total_exp, jd_min) \/ Greater(total_exp, jd_max) THEN Return(FALSE)
        ELSE IF jd_fields # <<>>
                /\ ~\E f \in 1..Len(jd_fields), e \in 1..Len(resume_exp) :
                       EvaluateFieldMatch(jd_fields[f], resume_exp[e], use_fuzzy_matching)
          THEN Return(FALSE)
        ELSE Return(TRUE)

\* One (required field, record) pair as score_experience_match judges it.
ScoreFieldMatch(jd_field, entry, use_fuzzy_matching) ==
  LET exp_field == normalize_field_name(Get(entry.field, None))
  IN  \/ use_fuzzy_matching /\ fields_similar(jd_field, exp_field)
      \/ Contains(exp_field, Lower(jd_field))

\* The minimum years up to 10, in tenths, whose product jd_min * 0.8 is a
\* decimal in tenths that the float product lies just above: 3 * 0.8 is
\* 2.4000000000000004.
FOUR_FIFTHS_ROUNDED_UP == {15, 30, 35, 60, 70, 85, 95}

\* total_exp >= jd_min * 0.8, the product a float
AtLeastFourFifths(total_exp, jd_min) ==
  IF jd_min.v \in FOUR_FIFTHS_ROUNDED_UP
    THEN total_exp.v * 10 > jd_min.v * 8
    ELSE total_exp.v * 10 >= jd_min.v * 8

\* The points for the total years, out of 30; jd_min is a number here.
YearsPoints(total_exp, jd_min, jd_max) ==
  LET meets_min == ~Less(total_exp, jd_min)
      meets_max == IF jd_max # Inf THEN ~Greater(total_exp, jd_max) ELSE TRUE
  IN  IF meets_min /\ meets_max THEN 30
      ELSE IF Greater(total_exp, jd_max) /\ jd_max # Inf THEN 20
      ELSE IF AtLeastFourFifths(total_exp, jd_min) THEN 15
      ELSE 0

\* Points that count every matching record of a field, as without `break`.
FieldPointsPerRecord(jd_fields, resume_exp, use_fuzzy_matching) ==
  IF jd_fields # <<>>
    THEN LET matched_fields ==
               Cardinality({ p \in (1..Len(jd_fields)) \X (1..Len(resume_exp)) :
                 ScoreFieldMatch(jd_fields[p[1]], resume_exp[p[2]], use_fuzzy_matching) })
         IN  RoundDiv(matched_fields * 7000, Len(jd_fields))
    ELSE 7000

\* The points for the required fields, out of 70, in hundredths.
FieldPoints(jd_fields, resume_exp, use_fuzzy_matching) ==
  IF jd_fields # <<>>
    THEN LET matched_fields ==
               Cardinality({ f \in 1..Len(jd_fields) :
                 \E e \in 1..Len(resume_exp) :
                   ScoreFieldMatch(jd_fields[f], resume_exp[e], use_fuzzy_matching) })
         IN  RoundDiv(matched_fields * 7000, Len(jd_fields))
    ELSE 7000

\* min(score, max_score)
Min(x, y) == IF x <= y THEN x ELSE y

\* score_experience_match(jd_exp, resume_exp, use_fuzzy_matching=True), the
\* score in hundredths.
score_experience_match(jd_exp, resume_exp, use_fuzzy_matching) ==
  IF jd_exp = EmptyJdExp \/ resume_exp = <<>> THEN Return(0)
  ELSE
    LET jd_min == Get(jd_exp.min_years, Int_(0))
        jd_max0 == Get(jd_exp.max_years, Inf)
        jd_fields == Get(jd_exp.fields, List(<<>>)).items
        jd_max == IF jd_max0 = None THEN Inf ELSE jd_max0
        total_exp == SumYears(resume_exp)
    IN  IF total_exp = None THEN RaiseExc("TypeError")
        ELSE IF jd_min = None
          THEN IF total_exp.t = "float" THEN RaiseExc("FloatNoneComparisonError")
               ELSE RaiseExc("TypeError")
        ELSE Return(Min(YearsPoints(total_exp, jd_min, jd_max) * 100
                          + FieldPoints(jd_fields, resume_exp, use_fuzzy_matching),
                        10000))

---------------------------------------------------------------------------
(* Inputs of the experience matcher *)

\* The longest list of experience records.
MaxExpRecords == 2

python == <<"p", "y", "t", "h", "o", "n">>
Python == <<"P", "y", "t", "h", "o", "n">>
pyton == <<"p", "y", "t", "o", "n">>
django == <<"d", "j", "a", "n", "g", "o">>
PythonBackend == <<"P", "y", "t", "h", "o", "n", " ", "b", "a", "c", "k", "e", "n", "d">>

\* Requirements: the flag, the bounds (2 and 5 years, None, or not given)
\* and the required fields; and the empty dictionary.
JdExps ==
  [required : {Bool(TRUE), Bool(FALSE), Missing},
   min_years : {Int_(20), None, Missing},
   max_years : {Int_(50), None, Missing},
   fields : {List(<<>>), List(<<python>>), List(<<Python, django>>), Missing}]

\* Records: 3 years, 1 year, 1.8 years, years None or not given; the field
\* equal to a required one, close to it, containing it, or absent.
ExpRecords ==
  { [years |-> Int_(30), field |-> Str(python)],
    [years |-> Int_(30), field |-> Str(PythonBackend)],
    [years |-> Float_(18), field |-> Str(pyton)],
    [years |-> Float_(18), field |-> None],
    [years |-> Int_(10), field |-> Str(django)],
    [years |-> None, field |-> Str(python)],
    [years |-> Missing, field |-> Missing] }

RECURSIVE ListsOf(_, _)
\* All lists of exactly n elements of S.
ListsOf(S, n) ==
  IF n = 0 THEN {<<>>} ELSE { Append(l, x) : l \in ListsOf(S, n - 1), x \in S }

ResumeExps == UNION { ListsOf(ExpRecords, n) : n \in 0..MaxExpRecords }

---------------------------------------------------------------------------
(* Specification of the experience matcher: one call of evaluate_experience *)
(* or of score_experience_match                                             *)

InitExperience ==
  /\ pc = "call"
  /\ args \in [jd_exp : JdExps, resume_exp : ResumeExps, use_fuzzy_matching : BOOLEAN]
  /\ ret = None
  /\ InitApp

EvaluateExperience ==
  /\ pc = "call"
  /\ ret' = [fn |-> "evaluate_experience",
             out |-> evaluate_experience(args.jd_exp, args.resume_exp,
                                         args.use_fuzzy_matching)]
  /\ pc' = "return"
  /\ UNCHANGED <<args, app>>

ScoreExperienceMatch ==
  /\ pc = "call"
  /\ ret' = [fn |-> "score_experience_match",
             out |-> score_experience_match(args.jd_exp, args.resume_exp,
                                            args.use_fuzzy_matching)]
  /\ pc' = "return"
  /\ UNCHANGED <<args, app>>

NextExperience == EvaluateExperience \/ ScoreExperienceMatch

SpecExperience == InitExperience /\ [][NextExperience]_vars

---------------------------------------------------------------------------
(* Degree ranker: utils/education_extract.py *)

\* The keys of degree_rank in the order the dictionary lists them.
DEGREE_KEYS ==
  << <<"p","h","d">>,
     <<"m","t","e","c","h">>, <<"m","s","c">>, <<"m","a","s","t","e","r","s">>,
     <<"b","t","e","c","h">>, <<"b","s","c">>, <<"b","a","c","h","e","l","o","r">>,
     <<"d","i","p","l","o","m","a">>,
     <<"p","u">>, <<"1","2","t","h">>, <<"p","u","c">>,
     <<"1","0","t","h">>, <<"s","s","l","c">> >>

\* Their ranks, in tenths: 4, 3, 3, 3, 2, 2, 2, 1, 0.5, 0.5, 0.5, 0.4, 0.4.
DEGREE_RANKS == <<40, 30, 30, 30, 20, 20, 20, 10, 5, 5, 5, 4, 4>>

\* degree_rank.get(key, 0), in tenths.
degree_rank(key) ==
  IF \E i \in 1..Len(DEGREE_KEYS) : DEGREE_KEYS[i] = key
    THEN DEGREE_RANKS[CHOOSE i \in 1..Len(DEGREE_KEYS) : DEGREE_KEYS[i] = key]
    ELSE 0

\* normalize_degree_name(degree): the first key of the table that occurs in
\* the lowercased degree, or None.
normalize_degree_name(degree) ==
  IF degree.t # "str" \/ degree.s = <<>> THEN None
  ELSE LET d == Lower(degree.s)
           hits == { i \in 1..Len(DEGREE_KEYS) : Contains(d, DEGREE_KEYS[i]) }
       IN  IF hits = {} THEN None
           ELSE Str(DEGREE_KEYS[CHOOSE i \in hits : \A j \in hits : i <= j])

\* degrees_similar(degree1, degree2, threshold=0.7), on two strings
degrees_similar(degree1, degree2) ==
  IF degree1 = <<>> \/ degree2 = <<>> THEN FALSE
  ELSE LET r == similar(degree1, degree2)
       IN  r.num * 10 > THRESHOLD_TENTHS * r.den

---------------------------------------------------------------------------
(* CGPA parsing: parse_cgpa in app.py and utils/education_extract.py *)

DIGITS == <<"0", "1", "2", "3", "4", "5", "6", "7", "8", "9">>

IsDigit(c) == \E i \in 1..Len(DIGITS) : DIGITS[i] = c

DigitValue(c) == (CHOOSE i \in 1..Len(DIGITS) : DIGITS[i] = c) - 1

\* str.replace(ch, '')
RECURSIVE RemoveCh(_, _)
RemoveCh(s, ch) ==
  IF s = <<>> THEN <<>>
  ELSE IF Head(s) = ch THEN RemoveCh(Tail(s), ch)
  ELSE <<Head(s)>> \o RemoveCh(Tail(s), ch)

RECURSIVE DigitsValue(_, _)
\* The number a string of digits writes, after the digits read so far.
DigitsValue(s, acc) ==
  IF s = <<>> THEN acc ELSE DigitsValue(Tail(s), acc * 10 + DigitValue(Head(s)))

\* float(s) on a decimal numeral with at most one digit after the point,
\* in tenths; None when s is no numeral (float raises ValueError).
ParseFloat(s) ==
  LET t == Strip(s)
      dots == { i \in 1..Len(t) : t[i] = "." }
  IN  IF t = <<>> \/ \E i \in 1..Len(t) : ~IsDigit(t[i]) /\ t[i] # "." THEN None
      ELSE IF dots = {} THEN Float_(DigitsValue(t, 0) * 10)
      ELSE IF Cardinality(dots) > 1 \/ Len(t) = 1 THEN None
      ELSE LET d == CHOOSE i \in dots : TRUE
               whole == SubSeq(t, 1, d - 1)
               frac == SubSeq(t, d + 1, Len(t))
           IN  IF Len(frac) > 1 THEN None
               ELSE Float_(DigitsValue(whole, 0) * 10 + DigitsValue(frac, 0))

\* `if not cgpa`: None, a missing value, 0, 0.0 and '' are falsy.
NotCgpa(cgpa) ==
  \/ cgpa.t \in {"none", "missing"}
  \/ cgpa.t \in {"int", "float"} /\ cgpa.v = 0
  \/ cgpa.t = "str" /\ cgpa.s = <<>>
  \/ cgpa.t = "bool" /\ ~cgpa.b
  \/ cgpa.t = "list" /\ cgpa.items = <<>>

\* The body of parse_cgpa's try: float(str(cgpa).strip().replace('%', '')),
\* which raises ValueError when the text is no numeral.
FloatOfText(cgpa) ==
  IF cgpa.t \in {"int", "float"} THEN Return(Float_(cgpa.v))
  ELSE IF cgpa.t = "str"
    THEN LET value == ParseFloat(RemoveCh(Strip(cgpa.s), "%"))
         IN  IF value = None THEN RaiseExc("ValueError") ELSE Return(value)
  ELSE RaiseExc("ValueError")

\* A try whose handler is missing: the exception leaves the function.
Propagate(outcome) == outcome

\* `except: return None`
ExceptReturnNone(outcome) ==
  IF outcome.kind = "raise" THEN Return(None) ELSE outcome

\* What a call parse_cgpa(cgpa) does.
CallParseCgpa(cgpa) ==
  IF NotCgpa(cgpa) THEN Return(None) ELSE ExceptReturnNone(FloatOfText(cgpa))

\* parse_cgpa(cgpa): None for a falsy value (None, 0, 0.0, ''), else
\* float(str(cgpa).strip().replace('%', '')), None when that raises.
parse_cgpa(cgpa) == CallParseCgpa(cgpa).value

\* preprocess_resume_data (app.py): entry["cgpa"] = parse_cgpa(entry.get("cgpa")),
\* in place, for every entry.
preprocess_resume_data(resume_data) ==
  [i \in 1..Len(resume_data) |->
     [resume_data[i] EXCEPT !.cgpa = parse_cgpa(Get(resume_data[i].cgpa, None))]]

---------------------------------------------------------------------------
(* Education matcher: utils/education_extract.py and app.py *)

L10th == <<"1", "0", "t", "h">>
LPU == <<"P", "U">>
LUG == <<"U", "G">>
LPG == <<"P", "G">>

\* The four levels in the order the code goes through them; a requirement
\* jd_education is the tuple of its four entries in this order, an entry
\* being Missing when the level is not a key of the dictionary.
LEVELS == <<L10th, LPU, LUG, LPG>>

\* EDUCATION_LEVEL_WEIGHTS, in tenths: 0.1, 0.2, 0.5, 0.2.
EDUCATION_LEVEL_WEIGHTS == <<1, 2, 5, 2>>

\* jd_education.get(level, {"required": False})
NOT_REQUIRED == [required |-> Bool(FALSE), degree |-> Missing, cgpa |-> Missing]

\* A lookup that returns the last entry of the level instead of the first.
GetLastEntry(resume_list, level_name) ==
  LET hits == { i \in 1..Len(resume_list) :
                  Lower(resume_list[i].level) = Lower(level_name) }
  IN  IF hits = {} THEN None
      ELSE resume_list[CHOOSE i \in hits : \A j \in hits : i >= j]

\* get_resume_entry(resume_list, level_name): the first entry of that level,
\* case-insensitively, or None.
get_resume_entry(resume_list, level_name) ==
  LET hits == { i \in 1..Len(resume_list) :
                  Lower(resume_list[i].level) = Lower(level_name) }
  IN  IF hits = {} THEN None
      ELSE resume_list[CHOOSE i \in hits : \A j \in hits : i <= j]

\* resume_cgpa < jd_cgpa, resume_cgpa not None: comparing a string with a
\* number raises TypeError.
CgpaBelow(resume_cgpa, jd_cgpa) ==
  IF IsNumber(resume_cgpa) /\ IsNumber(jd_cgpa)
    THEN Return(resume_cgpa.v < jd_cgpa.v)
    ELSE RaiseExc("TypeError")

\* A flag that counts as set when the entry does not give it.
IsRequiredByDefault(jd_entry) == Get(jd_entry.required, Bool(TRUE)) = Bool(TRUE)

\* jd_entry.get("required", False)
IsRequired(jd_entry) == Get(jd_entry.required, Bool(FALSE)) = Bool(TRUE)

\* A rank check that lets every degree through.
RankNeverBelow(resume_degree, jd_degree) == FALSE

\* degree_rank.get(resume_degree, 0) < degree_rank.get(jd_degree, 0)
RankBelow(resume_degree, jd_degree) ==
  degree_rank(resume_degree) < degree_rank(jd_degree)

\* education_level_match(jd_entry, resume_entry, level)
education_level_match(jd_entry, resume_entry, level) ==
  IF ~IsRequired(jd_entry) THEN Return(TRUE)
  ELSE IF resume_entry = None THEN Return(FALSE)
  ELSE
    LET jd_degree == normalize_degree_name(Get(jd_entry.degree, None))
        resume_degree == normalize_degree_name(Get(resume_entry.degree, None))
        jd_cgpa == Get(jd_entry.cgpa, None)
        resume_cgpa == Get(resume_entry.cgpa, None)
    IN  IF level \in {LUG, LPG} /\ (jd_degree = None \/ resume_degree = None)
          THEN Return(FALSE)
        ELSE IF level \in {LUG, LPG} /\ RankBelow(resume_degree.s, jd_degree.s)
          THEN Return(FALSE)
        ELSE IF level \in {LUG, LPG}
                /\ ~degrees_similar(jd_entry.degree.s, resume_entry.degree.s)
          THEN Return(FALSE)
        ELSE IF jd_cgpa # None
          THEN IF resume_cgpa = None THEN Return(FALSE)
               ELSE LET below == CgpaBelow(resume_cgpa, jd_cgpa)
                    IN  IF below.kind = "raise" THEN below
                        ELSE IF below.value THEN Return(FALSE)
                        ELSE Return(TRUE)
        ELSE Return(TRUE)

\* The decision for the i-th level.
LevelMatch(jd_education, resume_education, i) ==
  education_level_match(Get(jd_education[i], NOT_REQUIRED),
                        get_resume_entry(resume_education, LEVELS[i]), LEVELS[i])

RECURSIVE AllLevelsFrom(_, _, _)
\* all(education_level_match(...) for level in ["10th", "PU", "UG", "PG"]),
\* from the i-th level on: the first False ends it, and so does an exception.
AllLevelsFrom(jd_education, resume_education, i) ==
  IF i > Len(LEVELS) THEN Return(TRUE)
  ELSE LET m == LevelMatch(jd_education, resume_education, i)
       IN  IF m.kind = "raise" THEN m
           ELSE IF ~m.value THEN Return(FALSE)
           ELSE AllLevelsFrom(jd_education, resume_education, i + 1)

\* education_result of upload (app.py), on the records as extracted.
education_result(jd_education, resume_education) ==
  AllLevelsFrom(jd_education, resume_education, 1)

RECURSIVE SumWeights(_, _)
\* The sum of the weights of the levels of the set.
SumWeights(weights, levels) ==
  IF levels = {} THEN 0
  ELSE LET i == CHOOSE l \in levels : TRUE
       IN  weights[i] + SumWeights(weights, levels \ {i})

\* evaluate_education_score(jd_education, resume_education) of app.py, in
\* hundredths; any exception inside gives 0.0.
evaluate_education_score(jd_education, resume_education) ==
  LET resume == preprocess_resume_data(resume_education)
      all == 1..Len(LEVELS)
      total_weight == SumWeights(EDUCATION_LEVEL_WEIGHTS, all)
  IN  IF \E i \in all : LevelMatch(jd_education, resume, i).kind = "raise" THEN 0
      ELSE IF total_weight > 0
        THEN RoundDiv(SumWeights(EDUCATION_LEVEL_WEIGHTS,
                        { i \in all : LevelMatch(jd_education, resume, i).value })
                      * 10000, total_weight)
        ELSE 0

---------------------------------------------------------------------------
(* Inputs of the education matcher *)

\* The longest list of education records.
MaxEduRecords == 2

btech == <<"b", "t", "e", "c", "h">>
MTech == <<"M", "T", "e", "c", "h">>
BTechCSE == <<"B", "T", "e", "c", "h", " ", "C", "S", "E">>
lug == <<"u", "g">>
lpu == <<"p", "u">>

\* What a requirement can say about 10th or PU: nothing (the level is not a
\* key), not required though it names a CGPA, or required with a minimum
\* CGPA of 7.
SchoolJdEntries ==
  { Missing,
    [required |-> Bool(FALSE), degree |-> Missing, cgpa |-> Int_(90)],
    [required |-> Bool(TRUE), degree |-> None, cgpa |-> Int_(70)] }

\* What it can say about UG or PG: nothing, not required (flag false, or no
\* flag) whatever else it names, or required with a degree and possibly a
\* minimum CGPA of 7.
DegreeJdEntries ==
  { Missing,
    [required |-> Bool(FALSE), degree |-> Str(MTech), cgpa |-> Int_(90)],
    [required |-> Missing, degree |-> Str(btech), cgpa |-> Float_(75)],
    [required |-> Bool(TRUE), degree |-> Str(btech), cgpa |-> Int_(70)],
    [required |-> Bool(TRUE), degree |-> Str(MTech), cgpa |-> Missing] }

JdEducations ==
  { <<e10, epu, eug, epg>> : e10 \in SchoolJdEntries, epu \in SchoolJdEntries,
                             eug \in DegreeJdEntries, epg \in DegreeJdEntries }

\* Records as extracted: the level in either case, the degree a string or
\* absent, the CGPA a number, a numeral, a percentage, or absent.
EduRecords ==
  { [level |-> L10th, degree |-> None, cgpa |-> Str(<<"8", "5", "%">>)],
    [level |-> lpu, degree |-> Missing, cgpa |-> Float_(65)],
    [level |-> LUG, degree |-> Str(BTechCSE), cgpa |-> Float_(82)],
    [level |-> lug, degree |-> Str(BTechCSE), cgpa |-> Str(<<"6", ".", "5">>)],
    [level |-> LPG, degree |-> Str(MTech), cgpa |-> Int_(0)],
    [level |-> LPG, degree |-> Str(btech), cgpa |-> Str(<<"n", "a">>)] }

ResumeEducations == UNION { ListsOf(EduRecords, n) : n \in 0..MaxEduRecords }

---------------------------------------------------------------------------
(* Specification of the education matcher: the match as upload computes it, *)
(* or one call of evaluate_education_score, which parses the records' CGPA  *)
(* in place                                                                 *)

InitEducation ==
  /\ pc = "call"
  /\ args \in [jd_education : JdEducations, resume_education : ResumeEducations]
  /\ ret = None
  /\ InitApp

EducationResult ==
  /\ pc = "call"
  /\ ret' = [fn |-> "education_result",
             out |-> education_result(args.jd_education, args.resume_education)]
  /\ pc' = "return"
  /\ UNCHANGED <<args, app>>

EvaluateEducationScore ==
  /\ pc = "call"
  /\ ret' = [fn |-> "evaluate_education_score",
             out |-> Return(evaluate_education_score(args.jd_education,
                                                     args.resume_education))]
  /\ args' = [args EXCEPT !.resume_education = preprocess_resume_data(@)]
  /\ pc' = "return"
  /\ UNCHANGED app

NextEducation == EducationResult \/ EvaluateEducationScore

SpecEducation == InitEducation /\ [][NextEducation]_vars

---------------------------------------------------------------------------
(* Specification of the level decision: one call of education_level_match  *)
(* for a required level, the degrees drawn from the keys of the rank table *)

KeyDegrees == { Str(DEGREE_KEYS[i]) : i \in 1..Len(DEGREE_KEYS) }

LevelJdEntries ==
  [required : {Bool(TRUE), Bool(FALSE)},
   degree : KeyDegrees \cup {Str(MTech), None},
   cgpa : {None, Int_(70)}]

LevelResumeEntries ==
  [level : {LUG},
   degree : KeyDegrees \cup {Str(BTechCSE), None},
   cgpa : {None, Float_(82), Float_(65)}]

InitLevel ==
  /\ pc = "call"
  /\ args \in [jd_entry : LevelJdEntries,
               resume_entry : LevelResumeEntries \cup {None},
               level : {LEVELS[i] : i \in 1..Len(LEVELS)}]
  /\ ret = None
  /\ InitApp

EducationLevelMatch ==
  /\ pc = "call"
  /\ ret' = education_level_match(args.jd_entry, args.resume_entry, args.level)
  /\ pc' = "return"
  /\ UNCHANGED <<args, app>>

NextLevel == EducationLevelMatch

SpecLevel == InitLevel /\ [][NextLevel]_vars

---------------------------------------------------------------------------
(* Claims about the experience matcher *)

\* The records' years are summed: the call gets past its early returns.
YearsAreSummed ==
  /\ args.jd_exp # EmptyJdExp
  /\ args.resume_exp # <<>>
  /\ ret.fn = "evaluate_experience" => args.jd_exp.required = Bool(TRUE)

SomeYearsAbsent == \E i \in 1..Len(args.resume_exp) : args.resume_exp[i].years = None

\* C4: when a record's years value is None as the years are summed,
\* evaluate_experience and score_experience_match signal
\* FloatNoneComparisonError, not a value and not another error.
C4_AbsentYearsIsIncomparable ==
  (Returned /\ YearsAreSummed /\ SomeYearsAbsent)
    => ret.out = RaiseExc("FloatNoneComparisonError")

RECURSIVE TotalTenths(_)
\* The sum of the records' years, in tenths, a record without years
\* counting 0; the years are numbers.
TotalTenths(records) ==
  IF records = <<>> THEN 0
  ELSE (IF Head(records).years = Missing THEN 0 ELSE Head(records).years.v)
       + TotalTenths(Tail(records))

AllYearsNumeric(records) ==
  \A i \in 1..Len(records) : records[i].years # None

\* The total lies within [min_years, max_years]: a minimum not given is 0, a
\* maximum not given or None is no bound.
TotalWithinRange(jd, records) ==
  /\ AllYearsNumeric(records)
  /\ jd.min_years # None
  /\ (IF jd.min_years = Missing THEN 0 ELSE jd.min_years.v) <= TotalTenths(records)
  /\ jd.max_years \in {Missing, None} \/ TotalTenths(records) <= jd.max_years.v

\* A required field matches a record's field: the record has a field and, in
\* fuzzy mode, the two are similar above the threshold; otherwise the
\* required field occurs in the record's field, case ignored.
FieldMatches(jd_field, record, fuzzy) ==
  /\ record.field \notin {None, Missing}
  /\ IF fuzzy THEN fields_similar(jd_field, record.field.s)
     ELSE Contains(Lower(record.field.s), Lower(jd_field))

RequiredFields(jd) == IF jd.fields = Missing THEN <<>> ELSE jd.fields.items

EveryFieldMatched(jd, records, fuzzy) ==
  \A f \in 1..Len(RequiredFields(jd)) :
    \E r \in 1..Len(records) : FieldMatches(RequiredFields(jd)[f], records[r], fuzzy)

C10_Case ==
  /\ Returned
  /\ args.jd_exp.required = Bool(TRUE)
  /\ args.resume_exp # <<>>
  /\ TotalWithinRange(args.jd_exp, args.resume_exp)
  /\ EveryFieldMatched(args.jd_exp, args.resume_exp, args.use_fuzzy_matching)

\* C10: for a required requirement and a non-empty record list whose total
\* years lie within [min_years, max_years] and whose fields cover every
\* required field, evaluate_experience passes and score_experience_match
\* returns 100.0.
C10_InRangeAndCoveredPasses ==
  C10_Case =>
    /\ ret.fn = "evaluate_experience" => ret.out = Return(TRUE)
    /\ ret.fn = "score_experience_match" => ret.out = Return(10000)

\* The case happens with two required fields covered by two records, whose
\* years add up to a total between the two bounds.
C10_Witness ==
  /\ C10_Case
  /\ args.jd_exp.min_years = Int_(20)
  /\ Len(RequiredFields(args.jd_exp)) = 2
  /\ Len(args.resume_exp) = 2
  /\ args.jd_exp.max_years = Int_(50)
  /\ ret.fn = "score_experience_match"
  /\ ret.out = Return(10000)

---------------------------------------------------------------------------
(* Claims about the education matcher *)

\* No level is marked required: its entry is not there, or its flag is false
\* or not there.
NoLevelRequired(jd_education) ==
  \A i \in 1..Len(LEVELS) :
    IF jd_education[i] = Missing THEN TRUE
    ELSE jd_education[i].required \in {Bool(FALSE), Missing}

\* C8: when no level is marked required, education_match is true and
\* education_score is 100.0 for every list of records.
C8_NothingRequiredMatchesFully ==
  (Returned /\ NoLevelRequired(args.jd_education)) =>
    /\ ret.fn = "education_result" => ret.out = Return(TRUE)
    /\ ret.fn = "evaluate_education_score" => ret.out = Return(10000)

\* The case happens with entries that name a degree and a CGPA the records
\* do not reach, without requiring them.
C8_Witness ==
  /\ Returned
  /\ NoLevelRequired(args.jd_education)
  /\ args.jd_education[3] # Missing
  /\ args.jd_education[3].required = Missing
  /\ args.jd_education[4] # Missing
  /\ Len(args.resume_education) = 2
  /\ ret.fn = "evaluate_education_score"
  /\ ret.out = Return(10000)

C9_Case ==
  /\ Returned
  /\ args.level \in {LUG, LPG}
  /\ args.jd_entry.required = Bool(TRUE)
  /\ args.resume_entry # None
  /\ args.jd_entry.degree \in KeyDegrees
  /\ args.resume_entry.degree \in KeyDegrees
  /\ degree_rank(args.resume_entry.degree.s) < degree_rank(args.jd_entry.degree.s)

\* C9: a required UG or PG level whose requirement names the key k2 is never
\* satisfied by a record whose degree is a key k1 of lower rank.
C9_LowerRankNeverSatisfies == C9_Case => ret = Return(FALSE)

\* The case happens for btech against mtech, which are similar strings, and
\* for puc, which normalizes to the key pu.
C9_Witness ==
  /\ C9_Case
  /\ \/ args.jd_entry.degree = Str(DEGREE_KEYS[2]) /\ args.resume_entry.degree = Str(DEGREE_KEYS[5])
     \/ args.jd_entry.degree = Str(DEGREE_KEYS[8]) /\ args.resume_entry.degree = Str(DEGREE_KEYS[11])
  /\ args.jd_entry.cgpa = None
  /\ ret = Return(FALSE)

---------------------------------------------------------------------------
(* The web application (app.py) over the tables of users.db.  A handler    *)
(* answers one request in one step.  The status of an answer is the one    *)
(* sent to a request made with X-Requested-With: XMLHttpRequest; to other  *)
(* requests the same message is flashed with a redirect.                   *)

\* A value of a REAL column: a score in hundredths.
Real(v) == [t |-> "real", v |-> v]

\* sqlite3 stores a Python bool as the integer 1 or 0, whole like the years.
SqlValue(x) == IF x.t = "bool" THEN Int_(IF x.b THEN 10 ELSE 0) ELSE x

\* register_user(username, password): the INSERT fails on a username that is
\* already there (PRIMARY KEY).
register_user(username, password) ==
  \A u \in users : u.username # username

\* verify_user(username, password)
verify_user(username, password) ==
  \E u \in users : u.username = username /\ u.password = password

RECURSIVE Reverse(_)
Reverse(s) == IF s = <<>> THEN <<>> ELSE Append(Reverse(Tail(s)), Head(s))

\* A query without the WHERE clause: the rows of every user.
GetAllResults(username) == Reverse(results)

\* get_results(username): the rows of the user, the latest first.
get_results(username) ==
  Reverse(SelectSeq(results, LAMBDA r : r.username = username))

\* The row save_result inserts; AUTOINCREMENT numbers the rows from 1.
save_result(username, result, matches, education_match, education_score, experience_result, experience_score) ==
  [id |-> Len(results) + 1,
   username |-> username,
   result |-> result,
   matches |-> matches,
   education_result |-> SqlValue(education_match),
   education_score |-> education_score,
   experience_result |-> SqlValue(experience_result),
   experience_score |-> experience_score]

\* What a handler sends back.
Response(status, outcome, body) ==
  [status |-> status, outcome |-> outcome, body |-> body]

\* redirect(url_for('login'))
RedirectToLogin == Response(302, "login", None)

\* A verdict that does not look at the experience result.
OverallResultWithoutExperience(skills_result, education_match, experience_result) ==
  IF skills_result /\ education_match THEN "Pass" ELSE "Fail"

\* "Pass" if skills_result and education_result and experience_result else "Fail"
overall_result(skills_result, education_match, experience_result) ==
  IF skills_result /\ education_match /\ experience_result THEN "Pass" ELSE "Fail"

\* [score for score in [...] if score is not None]
PresentScores(scores) == SelectSeq(scores, LAMBDA score : score # None)

RECURSIVE SumScores(_)
SumScores(scores) ==
  IF scores = <<>> THEN 0 ELSE Head(scores).v + SumScores(Tail(scores))

\* A sum that is not divided by the number of scores.
OverallScoreAsSum(scores) ==
  [num |-> SumScores(PresentScores(scores)), den |-> 1]

\* A mean that counts a score that is not there as 0.
OverallScoreOverAll(scores) ==
  [num |-> SumScores(PresentScores(scores)), den |-> Len(scores)]

\* sum(scores) / len(scores) if scores else 0.0, as the fraction num/den of
\* hundredths.
overall_score(scores) ==
  LET present == PresentScores(scores)
  IN  IF present # <<>> THEN [num |-> SumScores(present), den |-> Len(present)]
      ELSE [num |-> 0, den |-> 1]

\* What the experience part of upload hands on, given the outcomes of the
\* two calls: the first exception, or the two results.
ExperiencePart(result, score) ==
  IF result.kind = "raise" THEN result
  ELSE IF score.kind = "raise" THEN score
  ELSE Return([experience_result |-> Bool(result.value),
               experience_score |-> Real(score.value)])

\* The experience part of upload: skipped unless the box is checked.
UploadExperience(jd_exp, resume_exp, experience_required) ==
  IF ~experience_required
    THEN Return([experience_result |-> Bool(TRUE), experience_score |-> None])
  ELSE ExperiencePart(evaluate_experience(jd_exp, resume_exp, TRUE),
                      score_experience_match(jd_exp, resume_exp, TRUE))

\* A skills expression that is a str, by the tokens the tokenizer finds in it.
Expr(tokens) == [t |-> "str", tokens |-> tokens]

\* evaluate_resume on what the extraction returned under skills_expression:
\* re.findall on a value that is not a str raises TypeError inside the try
\* block, and the except clause returns (False, 0.0).
CallEvaluateResume(skills_expression, resume_skills) ==
  IF skills_expression.t = "str"
    THEN evaluate_resume(skills_expression.tokens, resume_skills)
    ELSE [result |-> FALSE, match_count |-> 0]

\* extract_skills_from_expression(expression): the required skills;
\* re.findall on a value that is not a str raises TypeError.
extract_skills_from_expression(expression) ==
  IF expression.t = "str" THEN Return(RequiredSkills(expression.tokens))
  ELSE RaiseExc("TypeError")

AnalysisFailed == Response(500, "analysis_failed", None)

IncomparableExperience == Response(400, "incomparable_experience", None)

\* The end of the try block of upload, given the outcomes of the three
\* parts: the answer and the row to save, None when nothing is saved.
Combine(skills, experience, education_match, education_score, experience_required) ==
  IF experience.kind = "raise"
    THEN [response |-> IF experience.exc = "FloatNoneComparisonError"
                         THEN IncomparableExperience
                         ELSE AnalysisFailed,
          row |-> None]
  ELSE IF education_match.kind = "raise"
    THEN [response |-> AnalysisFailed, row |-> None]
  ELSE
    LET result == overall_result(skills.result, education_match.value,
                                 experience.value.experience_result.b)
        shown_result == IF experience_required
                          THEN experience.value.experience_result ELSE None
        shown_score == IF experience_required
                         THEN experience.value.experience_score ELSE None
    IN  [response |->
           Response(200, "report",
             [result |-> result,
              match_count |-> Real(skills.match_count),
              education_result |-> Bool(education_match.value),
              education_score |-> education_score,
              experience_result |-> shown_result,
              experience_score |-> shown_score,
              overall_score |-> overall_score(<<Real(skills.match_count),
                                  education_score,
                                  experience.value.experience_score>>),
              experience_evaluated |-> experience_required]),
         row |-> save_result(session.s, result, Real(skills.match_count),
                             Bool(education_match.value), education_score,
                             shown_result, shown_score)]

\* The answer of upload after save_result: the report lists the required
\* skills, and an exception while it is built is answered by the except
\* clause, the row being saved already.
Respond(done, skills) ==
  IF done.row # None /\ skills.kind = "raise"
    THEN [response |-> AnalysisFailed, row |-> done.row]
    ELSE done

\* The try block of upload once the text of the file is there.  jd_data and
\* resume_data are what the two extractions return, None when they fail;
\* the three keys of each are there.
Analyse(jd_data, resume_data, experience_required) ==
  IF jd_data = None \/ resume_data = None
    THEN [response |-> AnalysisFailed, row |-> None]
  ELSE LET done == Combine(CallEvaluateResume(jd_data.skills_expression, resume_data.skills),
                           UploadExperience(jd_data.experience, resume_data.experience,
                                            experience_required),
                           education_result(jd_data.education, resume_data.education),
                           Real(evaluate_education_score(jd_data.education,
                                                         resume_data.education)),
                           experience_required)
       IN  Respond(done, extract_skills_from_expression(jd_data.skills_expression))

\* upload(): the answer to the request and the row it saves.
upload(request) ==
  IF session = Missing THEN [response |-> RedirectToLogin, row |-> None]
  ELSE IF request.method # "POST"
    THEN [response |-> Response(200, "form", None), row |-> None]
  ELSE IF request.file = "invalid_type"
    THEN [response |-> Response(400, "invalid_file", None), row |-> None]
  ELSE IF request.file = "not_saved"
    THEN [response |-> Response(500, "save_failed", None), row |-> None]
  ELSE IF request.file = "no_text"
    THEN [response |-> Response(400, "no_text", None), row |-> None]
  ELSE Analyse(request.jd_data, request.resume_data, request.experience_required)

\* details(result_id): the row of the user with that id and the overall
\* score computed from its three scores.
details(result_id) ==
  IF session = Missing THEN RedirectToLogin
  ELSE LET found == SelectSeq(get_results(session.s), LAMBDA r : r.id = result_id)
       IN  IF found = <<>> THEN Response(302, "not_found", None)
           ELSE LET result == Head(found)
                IN  Response(200, "details",
                      [result |-> result,
                       overall_score |-> overall_score(<<result.matches,
                                           result.education_score,
                                           result.experience_score>>)])

\* dashboard(): the rows of the user.
dashboard ==
  IF session = Missing THEN RedirectToLogin
  ELSE Response(200, "dashboard", get_results(session.s))

---------------------------------------------------------------------------
(* Requests to the web application *)

\* The most rows the results table holds.
MaxResults == 1

Usernames == {"alice"}

Passwords == {"secret", "guess"}

JavaSkill == <<"J", "a", "v", "a", " ">>

\* What the extraction can return for a job description: '"Python" AND
\* "Java"', '"Python"' or the list ['"Python"']; no level required, UG required with a B.Tech and
\* a CGPA of 7, or PG required with an M.Tech and a CGPA of 0; experience of 2 to 5 years in python, required or not, or
\* a requirement whose min_years is None.
JdDatas ==
  [skills_expression : {Expr(ExamplePythonAndJava), Expr(<<LitPython>>), List(<<LitPython>>)},
   education :
     { <<Missing, Missing, Missing, Missing>>,
       <<Missing, Missing,
         [required |-> Bool(TRUE), degree |-> Str(btech), cgpa |-> Int_(70)],
         Missing>>,
       <<Missing, Missing, Missing,
         [required |-> Bool(TRUE), degree |-> Str(MTech), cgpa |-> Int_(0)]>> },
   experience :
     { [required |-> Bool(TRUE), min_years |-> Int_(20), max_years |-> Int_(50),
        fields |-> List(<<python>>)],
       [required |-> Bool(FALSE), min_years |-> Int_(20), max_years |-> Int_(50),
        fields |-> List(<<>>)],
       [required |-> Bool(TRUE), min_years |-> None, max_years |-> Int_(50),
        fields |-> List(<<>>)],
       [required |-> Bool(FALSE), min_years |-> None, max_years |-> Missing,
        fields |-> Missing] }]

\* What the extraction can return for a resume.
ResumeDatas ==
  [skills : { {python}, {python, JavaSkill} },
   education :
     { <<>>,
       <<[level |-> LUG, degree |-> Str(BTechCSE), cgpa |-> Float_(82)]>>,
       <<[level |-> lug, degree |-> Str(BTechCSE), cgpa |-> Str(<<"6", ".", "5">>)]>>,
       <<[level |-> LPG, degree |-> Str(MTech), cgpa |-> Int_(0)]>> },
   experience :
     { <<>>,
       <<[years |-> Int_(30), field |-> Str(python)]>>,
       <<[years |-> Float_(18), field |-> Str(pyton)]>> }]

\* The requests for /upload: a GET, a POST whose file is refused, cannot be
\* saved or has no text, and a POST whose file has text.
UploadRequests ==
  [method : {"GET"}, file : {"none"}, experience_required : {FALSE},
   jd_data : {None}, resume_data : {None}]
  \cup
  [method : {"POST"}, file : {"invalid_type", "not_saved", "no_text"},
   experience_required : {FALSE}, jd_data : {None}, resume_data : {None}]
  \cup
  [method : {"POST"}, file : {"text"}, experience_required : BOOLEAN,
   jd_data : JdDatas \cup {None}, resume_data : ResumeDatas \cup {None}]

---------------------------------------------------------------------------
(* Specification of the web application: a client with one upload form,    *)
(* args, registers, logs in, submits the form, looks at results, logs out  *)

InitUpload ==
  /\ pc = "idle"
  /\ args \in UploadRequests
  /\ ret = None
  /\ InitApp

\* register(), the form valid
Register(username, password) ==
  /\ users' = IF register_user(username, password)
                THEN users \cup {[username |-> username, password |-> password]}
                ELSE users
  /\ ret' = [fn |-> "register",
             out |-> IF register_user(username, password)
                       THEN Response(302, "registered", None)
                       ELSE Response(200, "username_exists", None)]
  /\ UNCHANGED <<pc, args, session, results>>

\* login(), the form valid
Login(username, password) ==
  /\ session' = IF verify_user(username, password) THEN Str(username) ELSE session
  /\ ret' = [fn |-> "login",
             out |-> IF verify_user(username, password)
                       THEN Response(302, "dashboard", None)
                       ELSE Response(200, "invalid_credentials", None)]
  /\ UNCHANGED <<pc, args, users, results>>

\* logout()
Logout ==
  /\ session' = Missing
  /\ ret' = [fn |-> "logout", out |-> RedirectToLogin]
  /\ UNCHANGED <<pc, args, users, results>>

\* upload(), while the results table holds fewer than max_rows rows
UploadWithin(max_rows) ==
  /\ Len(results) < max_rows
  /\ \E answer \in {upload(args)} :
       /\ ret' = [fn |-> "upload", out |-> answer.response]
       /\ results' = IF answer.row = None THEN results
                     ELSE Append(results, answer.row)
  /\ UNCHANGED <<pc, args, users, session>>

\* upload()
Upload == UploadWithin(MaxResults)

\* details(result_id)
Details(result_id) ==
  /\ ret' = [fn |-> "details", out |-> details(result_id)]
  /\ UNCHANGED <<pc, args, users, session, results>>

\* dashboard()
Dashboard ==
  /\ ret' = [fn |-> "dashboard", out |-> dashboard]
  /\ UNCHANGED <<pc, args, users, session, results>>

NextUpload ==
  \/ \E username \in Usernames, password \in Passwords : Register(username, password)
  \/ \E username \in Usernames, password \in Passwords : Login(username, password)
  \/ Logout
  \/ Upload
  \/ \E result_id \in 1..MaxResults : Details(result_id)
  \/ Dashboard

SpecUpload == InitUpload /\ [][NextUpload]_vars

---------------------------------------------------------------------------
(* Claims about the upload flow *)

\* The last answer came from the handler fn.
Responded(fn) == ret # None /\ ret.fn = fn

\* The upload got as far as the analysis of the two extracted structures.
AnalysisReached ==
  /\ Responded("upload")
  /\ session # Missing
  /\ args.method = "POST"
  /\ args.file = "text"
  /\ args.jd_data # None
  /\ args.resume_data # None

\* Experience is evaluated and the years, all numbers, are compared with a
\* min_years that is there but None: by evaluate_experience when the
\* requirement is required, by score_experience_match otherwise.
BoundComparisonAttempted ==
  /\ AnalysisReached
  /\ args.experience_required
  /\ args.jd_data.experience.min_years = None
  /\ args.resume_data.experience # <<>>
  /\ AllYearsNumeric(args.resume_data.experience)

\* C5: in the upload flow with experience evaluation enabled, whenever the
\* years are compared with a min_years that is None, the answer is the
\* incomparable-experience-data one (400), whether the requirement is
\* required or not and whether the sum of years is an int or a float.
C5_AbsentBoundIsIncomparable ==
  BoundComparisonAttempted => ret.out = IncomparableExperience

\* The upload answered with a report: the evaluation completed.
Completed == Responded("upload") /\ ret.out.outcome = "report"

SkillsMatch ==
  CallEvaluateResume(args.jd_data.skills_expression, args.resume_data.skills).result

EducationMatch ==
  education_result(args.jd_data.education, args.resume_data.education) = Return(TRUE)

ExperienceMatch ==
  evaluate_experience(args.jd_data.experience, args.resume_data.experience, TRUE)
    = Return(TRUE)

ExperienceSkipped == ~args.experience_required

\* C6: for every completed evaluation, overall_result is Pass if and only if
\* skills match, education matches, and experience matches or was skipped
\* by the caller; otherwise it is Fail.  The saved row carries the same verdict.
C6_PassIffAllDimensionsMatch ==
  Completed =>
    /\ ret.out.body.result \in {"Pass", "Fail"}
    /\ ret.out.body.result = "Pass"
         <=> (SkillsMatch /\ EducationMatch /\ (ExperienceMatch \/ ExperienceSkipped))
    /\ results[Len(results)].result = ret.out.body.result

\* The case happens where only the experience, evaluated, does not match.
C6_Witness ==
  /\ Completed
  /\ SkillsMatch
  /\ EducationMatch
  /\ ~ExperienceSkipped
  /\ ~ExperienceMatch
  /\ ret.out.body.result = "Fail"

\* The scores of the dimensions that were evaluated, in hundredths.
EvaluatedScores ==
  LET skills == CallEvaluateResume(args.jd_data.skills_expression,
                                   args.resume_data.skills).match_count
      education == evaluate_education_score(args.jd_data.education,
                                            args.resume_data.education)
      experience == score_experience_match(args.jd_data.experience,
                                           args.resume_data.experience, TRUE).value
  IN  IF args.experience_required THEN <<skills, education, experience>>
      ELSE <<skills, education>>

RECURSIVE SumSeq(_)
SumSeq(s) == IF s = <<>> THEN 0 ELSE Head(s) + SumSeq(Tail(s))

\* The fraction score is the arithmetic mean of the values.
IsMeanOf(score, values) ==
  /\ score.den > 0
  /\ score.num * Len(values) = SumSeq(values) * score.den

\* The details page shows a row.
RowShown == Responded("details") /\ ret.out.outcome = "details"

\* C7: overall_score is the unweighted mean of the scores that are present:
\* all three when experience was evaluated, skills and education only when
\* it was skipped; the score the details page computes from the stored row
\* is the one computed at upload.
C7_OverallScoreIsMeanOfPresent ==
  /\ Completed => IsMeanOf(ret.out.body.overall_score, EvaluatedScores)
  /\ RowShown =>
       /\ IsMeanOf(ret.out.body.overall_score, EvaluatedScores)
       /\ \A answer \in {upload(args).response} :
            answer.outcome = "report" => ret.out.body.overall_score = answer.body.overall_score

\* The case happens on the details page for a row saved without experience,
\* with a skills score of 50 and an education score of 100: the mean is 75.
C7_Witness ==
  /\ RowShown
  /\ ~args.experience_required
  /\ ret.out.body.result.experience_score = None
  /\ EvaluatedScores = <<5000, 10000>>
  /\ ret.out.body.overall_score = [num |-> 15000, den |-> 2]

---------------------------------------------------------------------------
(* Further claims about the experience matcher *)

\* The requirement is not marked required: its flag is false or not there.
NotMarkedRequired(jd_exp) == jd_exp.required \in {Bool(FALSE), Missing}

\* C11: for every requirement that is not marked required, a requirement
\* without any key included, and every record list, evaluate_experience
\* returns pass.
C11_NotRequiredPasses ==
  (Returned /\ ret.fn = "evaluate_experience" /\ NotMarkedRequired(args.jd_exp))
    => ret.out = Return(TRUE)

C12_Case ==
  /\ Returned
  /\ ret.fn = "evaluate_experience"
  /\ args.jd_exp.required = Bool(TRUE)
  /\ RequiredFields(args.jd_exp) = <<>>
  /\ args.resume_exp # <<>>
  /\ AllYearsNumeric(args.resume_exp)
  /\ args.jd_exp.min_years # None

\* C12: for a required requirement without required fields and a non-empty
\* record list with numeric years, evaluate_experience passes exactly when
\* min_years <= total_years <= max_years, the total being the sum of the
\* years of all records whatever their field, a missing min_years counting
\* as 0 and a missing or None max_years as no bound.
C12_PassesIffTotalInRange ==
  C12_Case =>
    /\ ret.out.kind = "return"
    /\ ret.out.value <=> TotalWithinRange(args.jd_exp, args.resume_exp)

\* The case happens with two records of different fields, each below the
\* minimum, whose years together reach it.
C12_Witness ==
  /\ C12_Case
  /\ args.jd_exp.min_years = Int_(20)
  /\ args.jd_exp.max_years = Int_(50)
  /\ Len(args.resume_exp) = 2
  /\ args.resume_exp[1].years = Float_(18)
  /\ args.resume_exp[2].years = Int_(10)
  /\ args.resume_exp[1].field # args.resume_exp[2].field
  /\ ret.out = Return(TRUE)

\* What a call normalize_degree_name(degree) does: None for a falsy value;
\* a number that is not 0 has no lower() and the call raises AttributeError.
CallNormalizeDegreeName(degree) ==
  IF IsNumber(degree) /\ degree.v # 0 THEN RaiseExc("AttributeError")
  ELSE Return(normalize_degree_name(degree))

---------------------------------------------------------------------------
(* Normalizers of the experience data: utils/exper_test.py *)

\* float(x) on a number
ToFloat(x) == Float_(x.v)

\* `if jd_exp`: None and the dict without keys are falsy.
IsEmptyJdExp(jd_exp) == jd_exp \in {None, EmptyJdExp}

RECURSIVE NormalizeFields(_)
\* [field.lower().strip() for field in fields if field]
NormalizeFields(fields) ==
  IF fields = <<>> THEN <<>>
  ELSE IF Head(fields) = <<>> THEN NormalizeFields(Tail(fields))
  ELSE <<Strip(Lower(Head(fields)))>> \o NormalizeFields(Tail(fields))

\* normalize_jd_experience(jd_exp): the fields lowercased and stripped when
\* the key is there, min_years a float or 0, max_years a float or None.
normalize_jd_experience(jd_exp) ==
  IF IsEmptyJdExp(jd_exp) THEN jd_exp
  ELSE [jd_exp EXCEPT
          !.fields = IF @ = Missing THEN @ ELSE List(NormalizeFields(@.items)),
          !.min_years = IF Get(@, None) # None THEN ToFloat(@) ELSE Int_(0),
          !.max_years = IF Get(@, None) # None THEN ToFloat(@) ELSE None]

\* One entry of normalize_resume_experience's loop.
NormalizeEntry(entry) ==
  [entry EXCEPT
     !.field = IF @.t = "str" /\ @.s # <<>> THEN Str(Strip(Lower(@.s))) ELSE @,
     !.years = IF Get(@, None) # None THEN ToFloat(@) ELSE Float_(0)]

\* normalize_resume_experience(resume_exp), in place on every entry
normalize_resume_experience(resume_exp) ==
  [i \in 1..Len(resume_exp) |-> NormalizeEntry(resume_exp[i])]

---------------------------------------------------------------------------
(* Inputs of the normalizers *)

\* CGPA values as the extraction delivers them: nothing, numbers, numerals
\* with and without percent sign and blanks, and text that is no numeral.
CgpaValues ==
  { None, Missing, Int_(0), Float_(0), Int_(7), Float_(82),
    Str(<<>>), Str(<<"0">>), Str(<<"0", "%">>), Str(<<"0", ".", "0">>),
    Str(<<"8", "5", "%">>), Str(<<" ", "7", ".", "5", " ">>), Str(<<"%">>),
    Str(<<"n", "a">>), Str(<<" ">>) }

Blank == <<" ">>

PyPadded == <<"P", "y", " ">>

RawJdExps ==
  {None, EmptyJdExp} \cup
  [required : {Bool(TRUE), Missing},
   min_years : {Int_(20), None, Missing},
   max_years : {Float_(55), None, Missing},
   fields : {Missing, List(<<>>), List(<<python>>), List(<<Blank, PyPadded, <<>> >>)}]

RawExpRecords ==
  { [years |-> Int_(30), field |-> Str(PyPadded)],
    [years |-> Float_(18), field |-> Str(python)],
    [years |-> None, field |-> Str(Blank)],
    [years |-> Missing, field |-> Missing],
    [years |-> Int_(0), field |-> None] }

RawResumeExps == UNION { ListsOf(RawExpRecords, n) : n \in 0..MaxExpRecords }

\* Degree names: keys of the table, names that contain one in another case,
\* names that contain none, the empty string and no name; and a number.
DegreeValues ==
  KeyDegrees \cup {Str(MTech), Str(BTechCSE), Str(python), Str(Blank), Str(<<>>), None, Missing, Int_(5)}

NormalizerCalls ==
  [fn : {"parse_cgpa"}, value : CgpaValues]
    \cup [fn : {"normalize_degree_name"}, value : DegreeValues]
    \cup [fn : {"normalize_jd_experience"}, value : RawJdExps]
    \cup [fn : {"normalize_resume_experience"}, value : RawResumeExps]

---------------------------------------------------------------------------
(* Specification of the normalizers: a normalizer is called on a value and
   then called again on what it returned *)

InitNormalize ==
  /\ pc = "call"
  /\ args \in NormalizerCalls
  /\ ret = None
  /\ InitApp

\* The value the next call receives: the input, then the first result.
NextInput == IF pc = "call" THEN args.value ELSE ret.out.value

Called(fn) ==
  /\ args.fn = fn
  /\ pc \in {"call", "return"}
  /\ pc = "return" => ret.out.kind = "return"
  /\ pc' = IF pc = "call" THEN "return" ELSE "again"
  /\ args' = [args EXCEPT !.value = NextInput]
  /\ UNCHANGED app

ParseCgpa ==
  /\ Called("parse_cgpa")
  /\ ret' = [fn |-> "parse_cgpa", out |-> CallParseCgpa(NextInput)]

NormalizeDegreeName ==
  /\ Called("normalize_degree_name")
  /\ ret' = [fn |-> "normalize_degree_name", out |-> CallNormalizeDegreeName(NextInput)]

NormalizeJdExperience ==
  /\ Called("normalize_jd_experience")
  /\ ret' = [fn |-> "normalize_jd_experience", out |-> Return(normalize_jd_experience(NextInput))]

NormalizeResumeExperience ==
  /\ Called("normalize_resume_experience")
  /\ ret' = [fn |-> "normalize_resume_experience", out |-> Return(normalize_resume_experience(NextInput))]

NextNormalize ==
  \/ ParseCgpa
  \/ NormalizeDegreeName
  \/ NormalizeJdExperience
  \/ NormalizeResumeExperience

SpecNormalize == InitNormalize /\ [][NextNormalize]_vars

---------------------------------------------------------------------------
(* Claims about the normalizers *)

\* The second call has returned: args.value is what the first call returned
\* and the second received, ret.out what the second returned.
CalledAgain(fn) == pc = "again" /\ args.fn = fn

\* Python's ==, under which 0 == 0.0, on two values
PyEq(x, y) == IF IsNumber(x) /\ IsNumber(y) THEN x.v = y.v ELSE x = y

JdExpEq(x, y) ==
  IF x = None \/ y = None THEN x = y
  ELSE /\ x.required = y.required
       /\ x.fields = y.fields
       /\ PyEq(x.min_years, y.min_years)
       /\ PyEq(x.max_years, y.max_years)

ResumeExpEq(x, y) ==
  /\ Len(x) = Len(y)
  /\ \A i \in 1..Len(x) : x[i].field = y[i].field /\ PyEq(x[i].years, y[i].years)

\* C13: normalizing twice gives what normalizing once gives: for every
\* CGPA value x, parse_cgpa(parse_cgpa(x)) = parse_cgpa(x), and the same for
\* normalize_jd_experience and normalize_resume_experience.
C13_NormalizationIsIdempotent ==
  /\ CalledAgain("parse_cgpa") => PyEq(ret.out.value, args.value)
  /\ CalledAgain("normalize_jd_experience") => JdExpEq(ret.out.value, args.value)
  /\ CalledAgain("normalize_resume_experience") => ResumeExpEq(ret.out.value, args.value)

---------------------------------------------------------------------------
(* Specification of the scores: one call of one of the three scoring       *)
(* functions, or the mean upload takes of the scores they return            *)

\* The longest skill expression scored, in tokens.
MaxScoreTokens == 3

ScoredExpressions ==
  UNION { TokenLists(n) : n \in 0..MaxScoreTokens }
    \cup {ExamplePythonAndJavaOrGo, ExamplePythonAndJava, ExampleOrAnd, ExampleNotAndOr}

\* Requirements whose fields repeat, in the same and in another case.
ScoredJdExps ==
  [required : {Bool(TRUE)},
   min_years : {Int_(20), Int_(30), Missing},
   max_years : {Int_(50), None},
   fields : {List(<<>>), List(<<python, python>>), List(<<python, Python, django>>)}]

\* Records with negative years (-3), very large years (100000) and usual
\* ones, one of them with four fifths of a minimum of 3 years.
ScoredExpRecords ==
  { [years |-> Int_(-30), field |-> Str(python)],
    [years |-> Float_(-5), field |-> Str(django)],
    [years |-> Int_(1000000), field |-> Str(PythonBackend)],
    [years |-> Float_(18), field |-> Str(pyton)],
    [years |-> Float_(24), field |-> Str(python)],
    [years |-> Int_(30), field |-> Missing] }

ScoredResumeExps == UNION { ListsOf(ScoredExpRecords, n) : n \in 0..MaxExpRecords }

SkillScoreCalls ==
  [fn : {"evaluate_resume"},
   skills_expression : ScoredExpressions, resume_skills : SUBSET RawSkills]

ExperienceScoreCalls ==
  [fn : {"score_experience_match"},
   jd_exp : ScoredJdExps, resume_exp : ScoredResumeExps, use_fuzzy_matching : BOOLEAN]

\* A minimum CGPA written as text: comparing a number with it raises.
TextCgpaEntry == [required |-> Bool(TRUE), degree |-> None, cgpa |-> Str(<<"7">>)]

\* Requirements that leave a level out or require it.
ScoredJdEducations ==
  { <<e10, epu, eug, epg>> :
      e10 \in {Missing, [required |-> Bool(TRUE), degree |-> None, cgpa |-> Int_(70)], TextCgpaEntry},
      epu \in {Missing, [required |-> Bool(TRUE), degree |-> None, cgpa |-> Int_(70)]},
      eug \in {Missing, [required |-> Bool(TRUE), degree |-> Str(btech), cgpa |-> Int_(70)]},
      epg \in {Missing, [required |-> Bool(TRUE), degree |-> Str(MTech), cgpa |-> Missing]} }

EducationScoreCalls ==
  [fn : {"evaluate_education_score"},
   jd_education : ScoredJdEducations, resume_education : ResumeEducations]

\* The scores the three functions return on the calls of a set.
SkillScores(calls) ==
  { evaluate_resume(c.skills_expression, c.resume_skills).match_count : c \in calls }

ExperienceScoreOutcomes(calls) ==
  { score_experience_match(c.jd_exp, c.resume_exp, c.use_fuzzy_matching) : c \in calls }

ExperienceScores(calls) ==
  { o.value : o \in { x \in ExperienceScoreOutcomes(calls) : x.kind = "return" } }

EducationScores(calls) ==
  { evaluate_education_score(c.jd_education, c.resume_education) : c \in calls }

\* [match_count, education_score, experience_score] as upload collects them,
\* the experience score None when experience was not evaluated.
ScoreLists(skill_scores, education_scores, experience_scores) ==
  { <<Real(s), Real(e), x>> :
      s \in skill_scores, e \in education_scores,
      x \in { Real(v) : v \in experience_scores } \cup {None} }

InitScores ==
  /\ pc = "call"
  /\ args \in SkillScoreCalls \cup ExperienceScoreCalls \cup EducationScoreCalls
                \cup [fn : {"overall_score"},
                      scores : ScoreLists(SkillScores(SkillScoreCalls),
                                          EducationScores(EducationScoreCalls),
                                          ExperienceScores(ExperienceScoreCalls))]
  /\ ret = None
  /\ InitApp

ScoreSkills ==
  /\ pc = "call"
  /\ args.fn = "evaluate_resume"
  /\ ret' = [fn |-> args.fn,
             out |-> Return(evaluate_resume(args.skills_expression, args.resume_skills))]
  /\ pc' = "return"
  /\ UNCHANGED <<args, app>>

ScoreExperience ==
  /\ pc = "call"
  /\ args.fn = "score_experience_match"
  /\ ret' = [fn |-> args.fn,
             out |-> score_experience_match(args.jd_exp, args.resume_exp,
                                            args.use_fuzzy_matching)]
  /\ pc' = "return"
  /\ UNCHANGED <<args, app>>

ScoreEducation ==
  /\ pc = "call"
  /\ args.fn = "evaluate_education_score"
  /\ ret' = [fn |-> args.fn,
             out |-> Return(evaluate_education_score(args.jd_education,
                                                     args.resume_education))]
  /\ args' = [args EXCEPT !.resume_education = preprocess_resume_data(@)]
  /\ pc' = "return"
  /\ UNCHANGED app

OverallScore ==
  /\ pc = "call"
  /\ args.fn = "overall_score"
  /\ ret' = [fn |-> args.fn, out |-> Return(overall_score(args.scores))]
  /\ pc' = "return"
  /\ UNCHANGED <<args, app>>

NextScores == ScoreSkills \/ ScoreExperience \/ ScoreEducation \/ OverallScore

SpecScores == InitScores /\ [][NextScores]_vars

---------------------------------------------------------------------------
(* Claims about the scores *)

\* The call of fn has returned a value.
ReturnedFrom(fn) == Returned /\ ret.fn = fn /\ ret.out.kind = "return"

\* A score in hundredths between 0 and 100.
WithinRange(score) == 0 <= score /\ score <= 10000

\* C14: every score lies in [0, 100]: the skills score of evaluate_resume,
\* the education score of evaluate_education_score, its error path included,
\* the experience score of score_experience_match, with negative or very
\* large years and repeated required fields, and the overall score taken
\* from them.
C14_ScoresWithinRange ==
  /\ ReturnedFrom("evaluate_resume") => WithinRange(ret.out.value.match_count)
  /\ ReturnedFrom("evaluate_education_score") => WithinRange(ret.out.value)
  /\ ReturnedFrom("score_experience_match") => WithinRange(ret.out.value)
  /\ ReturnedFrom("overall_score") =>
       /\ ret.out.value.den > 0
       /\ 0 <= ret.out.value.num
       /\ ret.out.value.num <= 10000 * ret.out.value.den

\* The case happens when a record with negative years and one with very
\* large years meet a requirement that names the same field twice and sets
\* no maximum: the score is 100.
C14_Witness ==
  /\ ReturnedFrom("score_experience_match")
  /\ args.jd_exp.fields = List(<<python, python>>)
  /\ args.jd_exp.max_years = None
  /\ Len(args.resume_exp) = 2
  /\ args.resume_exp[1].years = Int_(-30)
  /\ args.resume_exp[2].years = Int_(1000000)
  /\ ret.out.value = 10000

\* The error path of evaluate_education_score is taken.
C14_ErrorPathWitness ==
  /\ ReturnedFrom("evaluate_education_score")
  /\ args.jd_education[1] = TextCgpaEntry
  /\ education_result(args.jd_education, args.resume_education).kind = "raise"
  /\ ret.out.value = 0

C14_OverallWitness ==
  /\ ReturnedFrom("overall_score")
  /\ args.scores = <<Real(10000), Real(10000), Real(10000)>>
  /\ ret.out.value.num = 10000 * ret.out.value.den

---------------------------------------------------------------------------
(* Specification of repeated evaluation: one of the evaluating functions   *)
(* is called, and then called again with the same requirement and the very *)
(* same record objects, as the first call left them                        *)

\* Requirements that leave a level out or require it, the PG level also with
\* a minimum CGPA of 0.
TwiceJdEducations ==
  { <<e10, Missing, eug, epg>> :
      e10 \in {Missing, [required |-> Bool(TRUE), degree |-> None, cgpa |-> Int_(70)]},
      eug \in {Missing, [required |-> Bool(TRUE), degree |-> Str(btech), cgpa |-> Int_(70)]},
      epg \in {Missing, [required |-> Bool(TRUE), degree |-> Str(MTech), cgpa |-> Missing],
               [required |-> Bool(TRUE), degree |-> Str(MTech), cgpa |-> Int_(0)]} }

\* The records of the education matcher and one whose CGPA is the text '0'.
TwiceEduRecords ==
  EduRecords \cup {[level |-> LPG, degree |-> Str(MTech), cgpa |-> Str(<<"0">>)]}

TwiceResumeEducations == UNION { ListsOf(TwiceEduRecords, n) : n \in 0..MaxEduRecords }

TwiceCalls ==
  SkillScoreCalls
    \cup ExperienceScoreCalls
    \cup [fn : {"evaluate_experience"},
          jd_exp : ScoredJdExps, resume_exp : ScoredResumeExps, use_fuzzy_matching : BOOLEAN]
    \cup [fn : {"evaluate_education_score"},
          jd_education : TwiceJdEducations, resume_education : TwiceResumeEducations]

InitTwice ==
  /\ pc = "call"
  /\ args \in TwiceCalls
  /\ ret = None
  /\ InitApp

\* The control of a call and of the call that repeats it: its outcome is
\* kept as the first or as the second one.
Evaluated(fn, outcome) ==
  /\ args.fn = fn
  /\ pc \in {"call", "return"}
  /\ pc' = IF pc = "call" THEN "return" ELSE "again"
  /\ ret' = IF pc = "call" THEN [fn |-> fn, first |-> outcome, second |-> None]
                           ELSE [ret EXCEPT !.second = outcome]
  /\ UNCHANGED app

EvaluateResumeTwice ==
  /\ args.fn = "evaluate_resume"
  /\ Evaluated("evaluate_resume",
               Return(evaluate_resume(args.skills_expression, args.resume_skills)))
  /\ UNCHANGED args

EvaluateExperienceTwice ==
  /\ args.fn = "evaluate_experience"
  /\ Evaluated("evaluate_experience",
               evaluate_experience(args.jd_exp, args.resume_exp, args.use_fuzzy_matching))
  /\ UNCHANGED args

ScoreExperienceMatchTwice ==
  /\ args.fn = "score_experience_match"
  /\ Evaluated("score_experience_match",
               score_experience_match(args.jd_exp, args.resume_exp, args.use_fuzzy_matching))
  /\ UNCHANGED args

\* evaluate_education_score parses the CGPA of the caller's records in place.
EvaluateEducationScoreTwice ==
  /\ args.fn = "evaluate_education_score"
  /\ Evaluated("evaluate_education_score",
               Return(evaluate_education_score(args.jd_education, args.resume_education)))
  /\ args' = [args EXCEPT !.resume_education = preprocess_resume_data(@)]

NextTwice ==
  \/ EvaluateResumeTwice
  \/ EvaluateExperienceTwice
  \/ ScoreExperienceMatchTwice
  \/ EvaluateEducationScoreTwice

SpecTwice == InitTwice /\ [][NextTwice]_vars

---------------------------------------------------------------------------
(* Claims about repeated evaluation *)

\* C15: evaluating the same requirement and the very same record objects
\* twice in succession gives the same match booleans and the same scores
\* both times, for skills, education and experience.
C15_SecondEvaluationAgrees ==
  pc = "again" => ret.second = ret.first

\* Two lists of education records that are equal as Python compares them.
SameEducation(x, y) ==
  /\ Len(x) = Len(y)
  /\ \A i \in 1..Len(x) :
       /\ x[i].level = y[i].level
       /\ x[i].degree = y[i].degree
       /\ PyEq(x[i].cgpa, y[i].cgpa)

\* C16: evaluation never changes its inputs: over a call of evaluate_resume,
\* evaluate_education_score, evaluate_experience or score_experience_match,
\* the caller's requirement, record list and every record in it (cgpa,
\* degree, level, years, field) stay as they were.
C16_InputsUnchanged ==
  [][IF args.fn = "evaluate_education_score"
       THEN /\ args'.jd_education = args.jd_education
            /\ SameEducation(args'.resume_education, args.resume_education)
       ELSE args' = args]_vars

\* C17: for every requirement that lists no required fields and every record
\* list, the empty list included, score_experience_match awards the full 70
\* points of the fields component: the score it returns is at least 70.
C17_NoFieldsScoresSeventy ==
  (ReturnedFrom("score_experience_match") /\ RequiredFields(args.jd_exp) = <<>>)
    => ret.out.value >= 7000

\* A call of fn on args.value has ended, with the outcome ret.out.
Ended(fn) == pc \in {"return", "again"} /\ ret.fn = fn

\* A CGPA input: a number, a string or nothing.
IsCgpaInput(x) == x.t \in {"int", "float", "str", "none", "missing"}

\* A degree input: a string or nothing.
IsDegreeInput(x) == x.t \in {"str", "none", "missing"}

\* C18: a normalization that fails never raises: for every CGPA input (a
\* number, a numeral, a numeral with a trailing %, text that is no numeral,
\* the empty string, nothing) parse_cgpa returns a number or None, and for
\* every degree input (a string or nothing) normalize_degree_name returns a
\* key of the rank table or None.
C18_NormalizersNeverRaise ==
  /\ (Ended("parse_cgpa") /\ IsCgpaInput(args.value)) =>
       /\ ret.out.kind = "return"
       /\ IsNumber(ret.out.value) \/ ret.out.value = None
  /\ (Ended("normalize_degree_name") /\ IsDegreeInput(args.value)) =>
       /\ ret.out.kind = "return"
       /\ ret.out.value \in KeyDegrees \cup {None}

\* The case happens when parse_cgpa is given text that is no numeral.
C18_Witness ==
  /\ Ended("parse_cgpa")
  /\ args.value = Str(<<"n", "a">>)
  /\ ret.out = Return(None)

\* normalize_degree_name is given a name in capitals that contains a key.
C18_DegreeWitness ==
  /\ Ended("normalize_degree_name")
  /\ args.value = Str(BTechCSE)
  /\ ret.out = Return(Str(btech))

---------------------------------------------------------------------------
(* Further claims about upload *)

\* C19: in every upload that completes, education_match and education_score
\* come from the same decisions per level: the match is true exactly when
\* the score is 100.0.
C19_MatchIffFullScore ==
  Completed =>
    (ret.out.body.education_result = Bool(TRUE)
       <=> ret.out.body.education_score = Real(10000))

---------------------------------------------------------------------------
(* Further claims about the skill engine *)

\* The i-th token is a quoted literal whose content is a keyword, in any
\* case, or a parenthesis.
QuotesSyntax(tokens, i) ==
  IsQuoted(tokens[i]) /\ NormalizeSkill(tokens[i]) \in {AND, OR, NOT, LPAR, RPAR}

\* No NOT follows a NOT directly (such a chain is C1's subject).
NoChainedNot(tokens) ==
  \A i \in 1..(Len(tokens) - 1) :
    ~(IsKeyword(tokens[i], NOT) /\ IsKeyword(tokens[i + 1], NOT))

\* C20: every quoted literal is a membership test of its unquoted, trimmed,
\* lowercased content and never an operator or a parenthesis, also when the
\* content is and, or, not (in any case) or a parenthesis: an expression
\* with such a literal has the truth value the grammar gives it with the
\* literal as an atom.
C20_QuotedLiteralIsMembershipTest ==
  (/\ Returned
   /\ WellFormed(args.skills_expression)
   /\ NoChainedNot(args.skills_expression)
   /\ \E i \in 1..Len(args.skills_expression) : QuotesSyntax(args.skills_expression, i))
    => ret.result = TruthValue(args.skills_expression, args.resume_skills)

\* Without such a literal, and without a chain of NOTs, the evaluator gives
\* the truth value of the grammar.
UnquotedSyntaxEvaluatesRight ==
  (/\ Returned
   /\ WellFormed(args.skills_expression)
   /\ NoChainedNot(args.skills_expression)
   /\ \A i \in 1..Len(args.skills_expression) : ~QuotesSyntax(args.skills_expression, i))
    => ret.result = TruthValue(args.skills_expression, args.resume_skills)

---------------------------------------------------------------------------
(* Claims about the components of the experience score *)

\* min_years, in tenths, 0 when it is not given
MinTenths(jd) == IF jd.min_years = Missing THEN 0 ELSE jd.min_years.v

\* The points for the years in the order of the rule: 30 within the range,
\* else 20 above a finite maximum, else 15 from four fifths of the minimum
\* on, else 0.
RuleYearsPoints(jd, records) ==
  IF TotalWithinRange(jd, records) THEN 30
  ELSE IF jd.max_years \notin {Missing, None} /\ TotalTenths(records) > jd.max_years.v THEN 20
  ELSE IF TotalTenths(records) * 10 >= 8 * MinTenths(jd) THEN 15
  ELSE 0

C21_Case ==
  /\ ReturnedFrom("score_experience_match")
  /\ RequiredFields(args.jd_exp) = <<>>
  /\ args.resume_exp # <<>>

\* C21: the points for the years are decided in this order: 30 if min_years
\* <= total_years <= max_years, otherwise 20 if total_years exceeds a finite
\* max_years, otherwise 15 if total_years >= 0.8 * min_years, otherwise 0; so
\* for a requirement without required fields and a non-empty record list
\* score_experience_match returns 100, 90, 85 or 70.
C21_YearsPointsInOrder ==
  C21_Case =>
    ret.out.value = (RuleYearsPoints(args.jd_exp, args.resume_exp) + 70) * 100

\* A required field matches a record for the score: the record has a field
\* and the two are similar above the threshold (fuzzy mode) or the required
\* field occurs in the record's field, case ignored.
ScoreMatches(jd_field, record, fuzzy) ==
  /\ record.field \notin {None, Missing}
  /\ \/ fuzzy /\ fields_similar(jd_field, record.field.s)
     \/ Contains(Lower(record.field.s), Lower(jd_field))

\* The required-field entries that match at least one record, by position.
MatchedEntries(jd, records, fuzzy) ==
  { f \in 1..Len(RequiredFields(jd)) :
      \E r \in 1..Len(records) : ScoreMatches(RequiredFields(jd)[f], records[r], fuzzy) }

\* The part of the returned score that is not the points for the years.
FieldsComponent == ret.out.value - RuleYearsPoints(args.jd_exp, args.resume_exp) * 100

C22_Case ==
  /\ ReturnedFrom("score_experience_match")
  /\ RequiredFields(args.jd_exp) # <<>>
  /\ args.resume_exp # <<>>

\* C22: when required fields are listed, the fields component of the score
\* is 70 * (required-field entries that match at least one record) /
\* (required-field entries): each entry is judged on its own, one record may
\* satisfy several entries, and an entry counts once however many records
\* match it.
C22_FieldsComponentIsShare ==
  C22_Case =>
    FieldsComponent
      = RoundDiv(7000 * Cardinality(MatchedEntries(args.jd_exp, args.resume_exp,
                                                   args.use_fuzzy_matching)),
                 Len(RequiredFields(args.jd_exp)))

\* The case happens when one required field is matched by both of two
\* records whose years exceed the maximum: the score is 20 + 70.
C22_Witness ==
  /\ C22_Case
  /\ Len(RequiredFields(args.jd_exp)) = 1
  /\ Len(args.resume_exp) = 2
  /\ \A r \in 1..2 : ScoreMatches(RequiredFields(args.jd_exp)[1], args.resume_exp[r], args.use_fuzzy_matching)
  /\ ret.out.value = 9000

\* One record satisfies one of two required fields: half of the 70 points.
C22_HalfWitness ==
  /\ C22_Case
  /\ Len(RequiredFields(args.jd_exp)) = 2
  /\ Cardinality(MatchedEntries(args.jd_exp, args.resume_exp, args.use_fuzzy_matching)) = 1
  /\ FieldsComponent = 3500

\* Some (required field, record) pair matches.
SomePairMatches(jd, records, fuzzy) ==
  \E f \in 1..Len(RequiredFields(jd)), r \in 1..Len(records) :
    FieldMatches(RequiredFields(jd)[f], records[r], fuzzy)

C23_Case ==
  /\ Returned
  /\ ret.fn = "evaluate_experience"
  /\ args.jd_exp.required = Bool(TRUE)
  /\ RequiredFields(args.jd_exp) # <<>>
  /\ args.resume_exp # <<>>
  /\ TotalWithinRange(args.jd_exp, args.resume_exp)

\* C23: for a required requirement with required fields and a non-empty
\* record list whose total years are within range, evaluate_experience
\* passes exactly when at least one (required field, record) pair matches,
\* fuzzy-similar in fuzzy mode and contained in non-fuzzy mode; one pair
\* suffices, and a record without a field never matches.
C23_PassesIffSomePairMatches ==
  C23_Case =>
    ret.out = Return(SomePairMatches(args.jd_exp, args.resume_exp,
                                     args.use_fuzzy_matching))

\* The case happens when of two required fields only the first matches a
\* record, the other record having no field: the call passes.
C23_Witness ==
  /\ C23_Case
  /\ Len(RequiredFields(args.jd_exp)) = 2
  /\ Len(args.resume_exp) = 2
  /\ args.resume_exp[2].field = None
  /\ FieldMatches(RequiredFields(args.jd_exp)[1], args.resume_exp[1], args.use_fuzzy_matching)
  /\ \A r \in 1..2 : ~FieldMatches(RequiredFields(args.jd_exp)[2], args.resume_exp[r], args.use_fuzzy_matching)
  /\ ret.out = Return(TRUE)

---------------------------------------------------------------------------
(* Further claims about the education matcher *)

\* The requirement of the i-th level, the default when it names none.
JdEntry(jd_education, i) == Get(jd_education[i], NOT_REQUIRED)

\* The i-th level is required and its requirement gives a minimum CGPA.
RequiresCgpa(jd_education, i) ==
  /\ IsRequired(JdEntry(jd_education, i))
  /\ Get(JdEntry(jd_education, i).cgpa, None) # None

\* The record of the i-th level has a CGPA that parses to a value of at
\* least the minimum.
ParsedCgpaSuffices(jd_education, resume_education, i) ==
  LET entry == get_resume_entry(resume_education, LEVELS[i])
  IN  /\ entry # None
      /\ parse_cgpa(Get(entry.cgpa, None)) # None
      /\ parse_cgpa(Get(entry.cgpa, None)).v >= JdEntry(jd_education, i).cgpa.v

\* C25: a required level whose requirement gives a minimum CGPA is
\* satisfied only if the record's CGPA, a number or a numeral possibly
\* followed by %, parses to a value of at least the minimum; an absent or
\* unparsable CGPA makes the level fail as a normal false result, not as an
\* error, in the match and in the score.
C25_CgpaDecidesWithoutError ==
  Returned =>
    /\ ret.out.kind = "return"
    /\ ret.out.value = (IF ret.fn = "education_result" THEN TRUE ELSE 10000) =>
         \A i \in 1..Len(LEVELS) :
           RequiresCgpa(args.jd_education, i) =>
             ParsedCgpaSuffices(args.jd_education, args.resume_education, i)

\* The i-th level is required and no record has that level.
LevelWithoutRecord(jd_education, resume_education, i) ==
  /\ IsRequired(JdEntry(jd_education, i))
  /\ get_resume_entry(resume_education, LEVELS[i]) = None

\* The requirements with the i-th level no longer required.
WithoutLevel(jd_education, i) == [jd_education EXCEPT ![i] = NOT_REQUIRED]

\* The score of the same records once the i-th level is not required.
ScoreWithoutLevel(jd_education, resume_education, i) ==
  evaluate_education_score(WithoutLevel(jd_education, i), resume_education)

\* C24: a required level of which the records hold no record fails:
\* education_match is false, and education_score leaves out that level's
\* weight while the contribution of every other level is what it is without
\* the requirement.
C24_LevelWithoutRecordFails ==
  \A i \in 1..Len(LEVELS) :
    Returned /\ LevelWithoutRecord(args.jd_education, args.resume_education, i) =>
      IF ret.fn = "education_result"
      THEN ret.out.kind = "return" /\ ret.out.value = FALSE
      ELSE ret.out.value + EDUCATION_LEVEL_WEIGHTS[i] * 1000 =
             ScoreWithoutLevel(args.jd_education, args.resume_education, i)

\* The same for the score alone.
C24_ScoreLeavesOutWeight ==
  \A i \in 1..Len(LEVELS) :
    Returned /\ LevelWithoutRecord(args.jd_education, args.resume_education, i) /\ ret.fn = "evaluate_education_score" =>
      ret.out.value + EDUCATION_LEVEL_WEIGHTS[i] * 1000 =
        ScoreWithoutLevel(args.jd_education, args.resume_education, i)

\* The match of such records, when it returns, is false.
C24_MatchNeverTrue ==
  \A i \in 1..Len(LEVELS) :
    Returned /\ LevelWithoutRecord(args.jd_education, args.resume_education, i) /\ ret.fn = "education_result" /\ ret.out.kind = "return" =>
      ret.out.value = FALSE

---------------------------------------------------------------------------
(* Claims relating the experience score to the experience match *)

\* In fuzzy mode the score and the match judge every (required field,
\* record) pair of the input alike.
PairsJudgedAlike ==
  \A f \in 1..Len(RequiredFields(args.jd_exp)), r \in 1..Len(args.resume_exp) :
    ScoreFieldMatch(RequiredFields(args.jd_exp)[f], args.resume_exp[r], TRUE)
      <=> EvaluateFieldMatch(RequiredFields(args.jd_exp)[f], args.resume_exp[r], TRUE)

C26_Case ==
  /\ ReturnedFrom("score_experience_match")
  /\ args.use_fuzzy_matching
  /\ args.jd_exp.required = Bool(TRUE)
  /\ args.resume_exp # <<>>
  /\ TotalWithinRange(args.jd_exp, args.resume_exp)

\* C26: in fuzzy mode a (required field, record) pair counts as matched in
\* score_experience_match exactly when it counts as matched in
\* evaluate_experience; hence a required requirement, a non-empty record
\* list, total years within range and a fields component above 0 mean that
\* evaluate_experience passes.
C26_ScoreAndMatchAgree ==
  C26_Case =>
    /\ PairsJudgedAlike
    /\ FieldsComponent > 0 =>
         evaluate_experience(args.jd_exp, args.resume_exp, TRUE) = Return(TRUE)

---------------------------------------------------------------------------
(* Claims about the stacks of the skill engine *)

\* The call went past the evaluation loops and popped its result: the
\* expression has tokens, nothing was raised and the operand stack was not
\* empty.
PoppedResult(st) ==
  /\ Returned
  /\ args.skills_expression # <<>>
  /\ ~st.raised
  /\ st.operand_stack # <<>>

\* C27: when evaluate_resume returns a result without taking the error
\* path, both stacks were fully consumed: before the final pop the operator
\* stack is empty and the operand stack holds exactly one value, so two
\* operands that no operator joins are not evaluated to the last of them.
C27_StacksFullyConsumed ==
  \A st \in {FinalStacks(args.skills_expression, args.resume_skills)} :
    PoppedResult(st) => st.operator_stack = <<>> /\ Len(st.operand_stack) = 1

---------------------------------------------------------------------------
(* Claims about several records of one education level *)

\* The records of the level, case-insensitively, in list order.
RecordsOfLevel(resume_education, level_name) ==
  SelectSeq(resume_education, LAMBDA r : Lower(r.level) = Lower(level_name))

RECURSIVE FirstRecordsFrom(_, _)
\* The first record of each level from the i-th on, in the order of the levels.
FirstRecordsFrom(resume_education, i) ==
  IF i > Len(LEVELS) THEN <<>>
  ELSE LET same == RecordsOfLevel(resume_education, LEVELS[i])
       IN  (IF same = <<>> THEN <<>> ELSE <<Head(same)>>)
             \o FirstRecordsFrom(resume_education, i + 1)

\* The list with the later records of every level dropped and the levels in
\* their fixed order.
FirstRecords(resume_education) == FirstRecordsFrom(resume_education, 1)

\* C28: with several records of one education level only the first in list
\* order whose level equals the level name, case-insensitively, decides:
\* education_match and education_score are those of the list without the
\* later records of each level, whatever the order of the records of
\* different levels.
C28_FirstRecordOfLevelDecides ==
  [][pc = "call" =>
       \A first \in {FirstRecords(args.resume_education)} :
         IF ret'.fn = "education_result"
           THEN ret'.out = education_result(args.jd_education, first)
           ELSE ret'.out.value = evaluate_education_score(args.jd_education, first)]_vars

\* Two UG records, the first above the required CGPA and the second below:
\* the score is full.
C28_Witness ==
  /\ Returned
  /\ ret.fn = "evaluate_education_score"
  /\ Len(args.resume_education) = 2
  /\ Len(RecordsOfLevel(args.resume_education, LUG)) = 2
  /\ RequiresCgpa(args.jd_education, 3)
  /\ args.resume_education[1].cgpa = Float_(82)
  /\ args.resume_education[2].cgpa = Float_(65)
  /\ JdEntry(args.jd_education, 3).cgpa.v = 70
  /\ ret.out.value = 10000

\* Two records of different levels, the later level first in the list.
C28_ReorderedWitness ==
  /\ Returned
  /\ Len(args.resume_education) = 2
  /\ Lower(args.resume_education[1].level) = Lower(LPG)
  /\ Lower(args.resume_education[2].level) = Lower(LUG)
  /\ FirstRecords(args.resume_education) = <<args.resume_education[2], args.resume_education[1]>>
  /\ IsRequired(JdEntry(args.jd_education, 3))
  /\ IsRequired(JdEntry(args.jd_education, 4))

---------------------------------------------------------------------------
(* Claims about what upload stores *)

\* The step is a request to upload that is not answered with the report.
UploadFailed == ret'.fn = "upload" /\ ret'.out.outcome # "report"

\* The step stores exactly one more row.
OneRowSaved == Len(results') = Len(results) + 1 /\ SubSeq(results', 1, Len(results)) = results

\* C29: upload persists a result row only after the skills, education and,
\* when enabled, experience evaluations have all completed without error,
\* and at most once per request: a request that ends with an invalid file,
\* no extracted text, a failed extraction, FloatNoneComparisonError or any
\* other exception leaves the stored results unchanged.
C29_SavedOnlyWithReport ==
  [][/\ results' # results => OneRowSaved /\ ret'.fn = "upload"
     /\ UploadFailed => results' = results]_vars

---------------------------------------------------------------------------
(* Specification of the web application with two users: each registers,    *)
(* logs in, submits the form, looks at results and logs out, in any order  *)

\* The most rows the results table holds with two users.
MaxRows == 2

TwoUsernames == {"alice", "bob"}

\* A form whose analysis completes, and a form whose file is refused.
TwoUserRequests ==
  { [method |-> "POST", file |-> "text", experience_required |-> FALSE,
     jd_data |-> [skills_expression |-> Expr(<<LitPython>>),
                  education |-> <<Missing, Missing, Missing, Missing>>,
                  experience |-> [required |-> Bool(FALSE), min_years |-> Int_(20),
                                  max_years |-> Int_(50), fields |-> List(<<>>)]],
     resume_data |-> [skills |-> {python}, education |-> <<>>, experience |-> <<>>]],
    [method |-> "POST", file |-> "invalid_type", experience_required |-> FALSE,
     jd_data |-> None, resume_data |-> None] }

InitTwoUsers ==
  /\ pc = "idle"
  /\ args \in TwoUserRequests
  /\ ret = None
  /\ InitApp

NextTwoUsers ==
  \/ \E username \in TwoUsernames, password \in Passwords : Register(username, password)
  \/ \E username \in TwoUsernames, password \in Passwords : Login(username, password)
  \/ Logout
  \/ UploadWithin(MaxRows)
  \/ \E result_id \in 1..MaxRows : Details(result_id)
  \/ Dashboard

SpecTwoUsers == InitTwoUsers /\ [][NextTwoUsers]_vars

---------------------------------------------------------------------------
(* Claims about whose results are shown *)

\* Every row of the sequence belongs to the user of the session.
OwnRows(rows) == \A i \in 1..Len(rows) : rows[i].username = session.s

\* The row of that id belongs to another user than the one of the session.
OwnedByAnother(result_id) ==
  /\ session # Missing
  /\ result_id \in 1..Len(results)
  /\ results[result_id].username # session.s

\* C30: after any sequence of register, login, upload and logout by any
\* users, dashboard and details expose only result rows whose username is
\* the session's; without a username in the session they expose nothing and
\* redirect to login; details of a result id owned by another user is
\* answered as not found.
C30_OnlyOwnResultsShown ==
  /\ Responded("dashboard") =>
       IF session = Missing THEN ret.out = RedirectToLogin
       ELSE ret.out.outcome = "dashboard" /\ OwnRows(ret.out.body)
  /\ Responded("details") =>
       IF session = Missing THEN ret.out = RedirectToLogin
       ELSE \/ ret.out.outcome = "not_found"
            \/ ret.out.outcome = "details" /\ ret.out.body.result.username = session.s
  /\ \A result_id \in 1..MaxRows :
       OwnedByAnother(result_id) => details(result_id).outcome = "not_found"

\* bob asks for details while every stored row is alice's.
C30_Witness ==
  /\ Responded("details")
  /\ session = Str("bob")
  /\ results # <<>>
  /\ \A i \in 1..Len(results) : results[i].username = "alice"
  /\ ret.out.outcome = "not_found"

\* Both users have a row and the dashboard shows bob's only.
C30_DashboardWitness ==
  /\ Responded("dashboard")
  /\ session = Str("bob")
  /\ {results[i].username : i \in 1..Len(results)} = TwoUsernames
  /\ Len(ret.out.body) = 1
  /\ ret.out.body[1].username = "bob"

\* Nobody is logged in, rows are stored, and the dashboard redirects to login.
C30_LoggedOutWitness ==
  /\ Responded("dashboard")
  /\ session = Missing
  /\ results # <<>>
  /\ ret.out = RedirectToLogin

====
